---- MODULE Spec2Model ----
(***************************************************************************)
(* Model of the Serpent -> OpenMC geometry translator of saltproc          *)
(* (scripts/preprocessors/generate_geometry).                              *)
(*                                                                         *)
(* Text is modelled as sequences of one-character strings, a card as the   *)
(* sequence of its whitespace-separated tokens.  The registries            *)
(* (surf_dict, cell_dict, universe_dict, universe_to_cell_names_dict) are  *)
(* functions from names to values; OpenMC objects live in heaps indexed by *)
(* the ids OpenMC's id manager hands out (1, 2, 3, ... per class).         *)
(***************************************************************************)
EXTENDS Integers, Sequences, FiniteSets, TLC

VARIABLES
    pc,                          \* "start" | "scan" | "lat" | "cls": position of the driver
    err,                         \* "none", or the exception that ended the translation
    ncards,                      \* number of cards dispatched so far
    surface_bc,                  \* list of boundary types (helpers:173)
    root_name,                   \* name of the root universe (helpers:195-198)
    surf_dict,                   \* surface name -> "inf" sentinel | surface | sub-surface dict
    surfs,                       \* heap of openmc.Surface objects, by id
    cell_dict,                   \* cell name -> cell object
    universe_dict,               \* universe name -> id of the openmc.Universe object
    univs,                       \* heap of openmc.Universe objects, by id: their names
    universe_to_cell_names_dict, \* universe name -> list of cell names
    last,                        \* the card dispatched last
    lat_in,                      \* arguments of a get_lattice_univ_array call
    lat_out,                     \* its result
    cls_card,                    \* a cell card handed to the dispatch
    cls_out,                     \* the card kind the dispatch chose
    geo_files,                   \* OpenMCDepcode.geo_files: paths of the geometry files
    from_xml_path,               \* path of the geometry file read last by Geometry.from_xml
    geometry_xml,                \* path of the geometry exported last as the iteration input
    geo_files_given,             \* the geo_files list the depcode was constructed with
    calls,                       \* the methods of the depcode called so far
    files,                       \* the files of a run that exist on disk
    files_before,                \* the files that existed when check_restart was called
    restart_flag,                \* Simulation.restart_flag
    template_data,               \* the lines of the Serpent input template
    template_given,              \* the lines handed to replace_burnup_parameters
    reactor,                     \* Reactor: power_levels and depl_hist
    current_depstep_idx          \* the depletion step

vars == <<pc, err, ncards, surface_bc, root_name, surf_dict, surfs, cell_dict,
          universe_dict, univs, universe_to_cell_names_dict, last,
          lat_in, lat_out, cls_card, cls_out,
          geo_files, from_xml_path, geometry_xml, geo_files_given, calls,
          files, files_before, restart_flag, template_data, template_given,
          reactor, current_depstep_idx>>

transVars == <<err, ncards, surface_bc, root_name, surf_dict, surfs, cell_dict,
               universe_dict, univs, universe_to_cell_names_dict, last>>
latVars == <<lat_in, lat_out>>
clsVars == <<cls_card, cls_out>>
depVars == <<geo_files, from_xml_path, geometry_xml, geo_files_given, calls>>
simVars == <<files, files_before, restart_flag, template_data, template_given,
             reactor, current_depstep_idx>>
geoVars == <<surface_bc, root_name, surf_dict, surfs, cell_dict, universe_dict, univs,
             universe_to_cell_names_dict, last, ncards>>

----------------------------------------------------------------------------
(* Bounds of the model *)

MaxCards == 3        \* cards dispatched in one translation

----------------------------------------------------------------------------
(* Text helpers: Python str and list operations on character sequences *)

Digits == <<"0", "1", "2", "3", "4", "5", "6", "7", "8", "9">>
DigitChars == {Digits[i] : i \in 1..10}
DigitVal(c) == (CHOOSE i \in 1..10 : Digits[i] = c) - 1

\* str(n) for a non-negative integer
RECURSIVE Dec(_)
Dec(n) == IF n < 10 THEN <<Digits[n + 1]>> ELSE Dec(n \div 10) \o <<Digits[(n % 10) + 1]>>

\* value of a non-empty digit string
RECURSIVE DigitsVal(_)
DigitsVal(s) == IF Len(s) = 1 THEN DigitVal(s[1])
                ELSE 10 * DigitsVal(SubSeq(s, 1, Len(s) - 1)) + DigitVal(s[Len(s)])

AllDigits(s) == Len(s) > 0 /\ \A i \in 1..Len(s) : s[i] \in DigitChars

\* int(s): the sign and digits of s, or "ValueError"
IsIntText(s) == \/ AllDigits(s)
                \/ Len(s) > 1 /\ s[1] \in {"-", "+"} /\ AllDigits(Tail(s))
IntOf(s) == IF AllDigits(s) THEN DigitsVal(s)
            ELSE IF s[1] = "-" THEN 0 - DigitsVal(Tail(s)) ELSE DigitsVal(Tail(s))

\* s.replace(old, new): every non-overlapping occurrence, left to right
RECURSIVE Replace(_, _, _)
Replace(s, old, new) ==
    IF Len(s) < Len(old) THEN s
    ELSE IF SubSeq(s, 1, Len(old)) = old
         THEN new \o Replace(SubSeq(s, Len(old) + 1, Len(s)), old, new)
         ELSE <<s[1]>> \o Replace(Tail(s), old, new)

\* s.split(): the maximal runs of non-blank characters
RECURSIVE SplitWS(_, _)
SplitWS(s, word) ==
    IF s = <<>> THEN (IF word = <<>> THEN <<>> ELSE <<word>>)
    ELSE IF s[1] = " "
         THEN (IF word = <<>> THEN <<>> ELSE <<word>>) \o SplitWS(Tail(s), <<>>)
         ELSE SplitWS(Tail(s), Append(word, s[1]))
Split(s) == SplitWS(s, <<>>)

\* the text of a token sequence as it stands after a card's head: " t1 t2 ..."
RECURSIVE JoinTail(_)
JoinTail(toks) == IF toks = <<>> THEN <<>> ELSE <<" ">> \o toks[1] \o JoinTail(Tail(toks))

\* s.strip() for blanks
RECURSIVE LStrip(_)
LStrip(s) == IF s # <<>> /\ s[1] = " " THEN LStrip(Tail(s)) ELSE s
RECURSIVE RStrip(_)
RStrip(s) == IF s # <<>> /\ s[Len(s)] = " " THEN RStrip(SubSeq(s, 1, Len(s) - 1)) ELSE s
Strip(s) == RStrip(LStrip(s))

Range(f) == {f[i] : i \in DOMAIN f}

----------------------------------------------------------------------------
(* Tokens *)

T_cell == <<"c", "e", "l", "l">>
T_fill == <<"f", "i", "l", "l">>
T_outside == <<"o", "u", "t", "s", "i", "d", "e">>
AlnumChars == DigitChars \cup {"a", "b", "c", "d", "e", "f", "i", "l", "m", "o",
                               "s", "t", "u", "v", "x"}
\* [a-zA-Z0-9]+
IsName(tok) == Len(tok) > 0 /\ \A i \in 1..Len(tok) : tok[i] \in AlnumChars

----------------------------------------------------------------------------
(* Boundary Resolver: get_boundary_conditions_and_root *)

T_set == <<"s", "e", "t">>
T_bc == <<"b", "c">>
T_root == <<"r", "o", "o", "t">>
T_black == <<"b", "l", "a", "c", "k">>
T_reflective == <<"r", "e", "f", "l", "e", "c", "t", "i", "v", "e">>
T_periodic == <<"p", "e", "r", "i", "o", "d", "i", "c">>

StartsWith(s, p) == Len(s) >= Len(p) /\ SubSeq(s, 1, Len(p)) = p

\* the words BC_REGEX_CORE accepts after "set bc"
BC_REGEX_WORDS == {<<"1">>, <<"2">>, <<"3">>, T_black, T_reflective, T_periodic}

\* re.search(BC_REGEX, line): "set bc" and one to three accepted words; the
\* trailing [^%]* then takes whatever else stands on the line
BC_REGEX(line) ==
    /\ Len(line) >= 3
    /\ line[1] = T_set
    /\ line[2] = T_bc
    /\ \E w \in BC_REGEX_WORDS : StartsWith(line[3], w)

\* re.search(ROOT_REGEX, line)
ROOT_REGEX(line) ==
    /\ Len(line) >= 3
    /\ line[1] = T_set
    /\ line[2] = T_root
    /\ IsName(line[3])

BcKnown(bc) == bc \in BC_REGEX_WORDS
BcType(bc) == IF bc \in {<<"1">>, T_black} THEN "vacuum"
              ELSE IF bc \in {<<"2">>, T_reflective} THEN "reflective"
              ELSE "periodic"

\* the loop of lines 179-193 over bc_data
RECURSIVE BcLoop(_)
BcLoop(bc_data) ==
    IF bc_data = <<>> THEN [err |-> "none", bcs |-> <<>>]
    ELSE IF ~BcKnown(bc_data[1]) THEN [err |-> "ValueError_bc", bcs |-> <<>>]
    ELSE LET rest == BcLoop(Tail(bc_data))
         IN  [err |-> rest.err, bcs |-> <<BcType(bc_data[1])>> \o rest.bcs]

\* bc_line, root_line: the line of geo_data carrying the card, <<>> when the
\* source has none
get_boundary_conditions_and_root(bc_line, root_line) ==
    LET bc_card == IF BC_REGEX(bc_line) THEN bc_line ELSE <<>>
        root_card == IF ROOT_REGEX(root_line) THEN root_line ELSE <<>>
        res == IF bc_card = <<>> THEN [err |-> "none", bcs |-> <<"vacuum">>]
               ELSE BcLoop(SubSeq(bc_card, 3, Len(bc_card)))
    IN  [err |-> res.err,
         surface_bc |-> res.bcs,
         root_name |-> IF root_card = <<>> THEN <<"0">> ELSE root_card[3]]

\* the number of boundary entries the cell builder branches on
n_bcs == Len(surface_bc)

----------------------------------------------------------------------------
(* Surface Builder *)

special_case_surfaces == {"inf"}

\* the keys of geo_dict['surf'], those mapped to None included
geo_dict_surf_AllKeys ==
    {"px", "py", "pz", "plane", "cylx", "cyly", "cylz", "cyl", "cylv",
     "sph", "cone", "quadratic", "torx", "tory", "torz", "sqc", "rect",
     "hexxc", "hexyc", "cube", "cuboid", "octa", "pad"}

\* the kinds geo_dict['surf'] maps to a constructor (octa and pad map to None)
geo_dict_surf == {"px", "py", "pz", "plane", "cylx", "cyly", "cylz", "cyl", "cylv",
                  "sph", "cone", "quadratic", "torx", "tory", "torz", "sqc", "rect",
                  "hexxc", "hexyc", "cube", "cuboid"}

\* p = float(p) for the numbers of the cards, which are integer literals
RECURSIVE Floats(_)
Floats(surf_args) ==
    IF surf_args = <<>> THEN <<>> ELSE <<IntOf(Head(surf_args))>> \o Floats(Tail(surf_args))

Cross(u, v) == <<u[2] * v[3] - u[3] * v[2], u[3] * v[1] - u[1] * v[3], u[1] * v[2] - u[2] * v[1]>>
Dot(u, v) == u[1] * v[1] + u[2] * v[2] + u[3] * v[3]
Minus(u, v) == <<u[1] - v[1], u[2] - v[2], u[3] - v[3]>>

\* lines 213-225: n and np.dot(n, n0) for the 9 numbers of a plane card
PlaneNormal(surf_params) ==
    Cross(Minus(<<surf_params[2], surf_params[5], surf_params[8]>>,
                <<surf_params[1], surf_params[4], surf_params[7]>>),
          Minus(<<surf_params[3], surf_params[6], surf_params[9]>>,
                <<surf_params[1], surf_params[4], surf_params[7]>>))
PlaneD(surf_params) ==
    Dot(PlaneNormal(surf_params),
        <<0 - surf_params[1], 0 - surf_params[4], 0 - surf_params[7]>>)

NoParams == [none |-> TRUE, val |-> <<>>]
Params(val) == [none |-> FALSE, val |-> val]
SurfaceParams(e, surface_params, set_attributes, has_subsurfaces) ==
    [err |-> e, surface_params |-> surface_params,
     set_attributes |-> set_attributes, has_subsurfaces |-> has_subsurfaces]

\* lines 210-287: the parameters for the constructor of a kind geo_dict maps.
\* np.dot of two vectors is a scalar, so the subscript [0] of line 226 raises
\* IndexError; a plane card of another length leaves surface_params None.
\* The edge length 2 * d / sqrt(3) of a hexagonal prism is kept as its
\* numerator 2 * d.  The cards of the model draw none of the kinds cylv,
\* cube and cuboid, whose objects are built by openmc.model.
KindParams(surf_type, surf_params) ==
    IF surf_type = "plane"
    THEN IF Len(surf_params) = 9
         THEN SurfaceParams("IndexError", NoParams, TRUE, FALSE)
         ELSE SurfaceParams("none", NoParams, TRUE, FALSE)
    ELSE IF surf_type = "cylv"
    THEN SurfaceParams("none",
                       Params(<<SubSeq(surf_params, 1, 3), SubSeq(surf_params, 4, 6),
                                surf_params[Len(surf_params)]>>), TRUE, FALSE)
    ELSE IF surf_type = "sqc"
    THEN SurfaceParams("none",
                       Params(<<surf_params[3] * 2, surf_params[3] * 2, "z",
                                SubSeq(surf_params, 1, 2)>>), TRUE, TRUE)
    ELSE IF surf_type = "rect"
    THEN SurfaceParams("none",
                       Params(<<surf_params[4] - surf_params[3],
                                surf_params[2] - surf_params[1], "z",
                                <<surf_params[4] - (surf_params[4] - surf_params[3]) \div 2,
                                  surf_params[2] - (surf_params[2] - surf_params[1]) \div 2>>>>),
                       TRUE, TRUE)
    ELSE IF surf_type \in {"hexxc", "hexyc"}
    THEN SurfaceParams("none",
                       Params(<<2 * surf_params[3],
                                IF surf_type = "hexxc" THEN "y" ELSE "x",
                                SubSeq(surf_params, 1, 2)>>), TRUE, TRUE)
    ELSE IF surf_type = "cube"
    THEN SurfaceParams("none",
                       Params(<<surf_params[1] - surf_params[4], surf_params[1] + surf_params[4],
                                surf_params[2] - surf_params[4], surf_params[2] + surf_params[4],
                                surf_params[3] - surf_params[4], surf_params[3] + surf_params[4]>>),
                       TRUE, FALSE)
    ELSE SurfaceParams("none", Params(surf_params), TRUE, FALSE)

\* _get_openmc_surface_params:
\* [err, surface_params, set_attributes, has_subsurfaces]
get_openmc_surface_params(surf_type, surf_params) ==
    IF surf_type \in special_case_surfaces
    THEN SurfaceParams("none", NoParams, FALSE, FALSE)
    ELSE IF surf_type \in geo_dict_surf
    THEN KindParams(surf_type, surf_params)
    ELSE SurfaceParams("ValueError_surf", NoParams, TRUE, FALSE)

\* a fresh openmc.Surface with its coefficients: the id manager hands out the
\* next integer
NewSurface(type, name, coeffs) ==
    [type |-> type, name |-> name, coeffs |-> coeffs,
     boundary_type |-> "transmission", trans |-> <<>>]

\* the four planes openmc.model.rectangular_prism(width, height, axis, origin)
\* builds, in the order of Region.get_surfaces(): +min_x1 -max_x1 +min_x2
\* -max_x2.  The widths of the cards are even.
SubName(surf_name) == <<"_">> \o surf_name \o <<"_", "s", "u", "b">>
RectPrismSurfaces(surf_name, prism) ==
    <<NewSurface("px", SubName(surf_name), <<prism[4][1] - prism[1] \div 2>>),
      NewSurface("px", SubName(surf_name), <<prism[4][1] + prism[1] \div 2>>),
      NewSurface("py", SubName(surf_name), <<prism[4][2] - prism[2] \div 2>>),
      NewSurface("py", SubName(surf_name), <<prism[4][2] + prism[2] \div 2>>)>>

\* the six planes of openmc.model.hexagonal_prism, two of them axis planes
HexPrismSurfaces(surf_name, prism) ==
    LET axis == IF prism[2] = "y" THEN "px" ELSE "py"
    IN  <<NewSurface(axis, SubName(surf_name), prism),
          NewSurface(axis, SubName(surf_name), prism),
          NewSurface("plane", SubName(surf_name), prism),
          NewSurface("plane", SubName(surf_name), prism),
          NewSurface("plane", SubName(surf_name), prism),
          NewSurface("plane", SubName(surf_name), prism)>>

SubSurfaces(surf_name, surf_type, prism) ==
    IF surf_type \in {"hexxc", "hexyc"} THEN HexPrismSurfaces(surf_name, prism)
    ELSE RectPrismSurfaces(surf_name, prism)

\* the id given to an object without one (lines 328-333): int(surf_name), and
\* int.from_bytes(.., 'litle') raises ValueError for any other name
CompositeIdErr(surf_name) == IF AllDigits(surf_name) THEN "none" ELSE "ValueError_byteorder"

SurfEntry(tag, ids) == [tag |-> tag, ids |-> ids]

\* lines 316-339, p being what _get_openmc_surface_params returned; with
\* surface_params None and set_attributes set, tuple(None) raises TypeError.
\* [err, surfs, surf_dict]
StoreSurface(surf_name, surf_type, p) ==
    IF p.err # "none"
    THEN [err |-> p.err, surfs |-> surfs, surf_dict |-> surf_dict]
    ELSE IF ~p.set_attributes
    THEN [err |-> "none", surfs |-> surfs,
          surf_dict |-> (surf_name :> SurfEntry("inf", <<>>)) @@ surf_dict]
    ELSE IF p.surface_params.none
    THEN [err |-> "TypeError", surfs |-> surfs, surf_dict |-> surf_dict]
    ELSE IF p.has_subsurfaces
    THEN IF CompositeIdErr(surf_name) # "none"
         THEN [err |-> CompositeIdErr(surf_name),
               surfs |-> surfs \o SubSurfaces(<<>>, surf_type, p.surface_params.val),
               surf_dict |-> surf_dict]
         ELSE [err |-> "none",
               surfs |-> surfs \o SubSurfaces(surf_name, surf_type, p.surface_params.val),
               surf_dict |->
                   (surf_name :>
                      SurfEntry("subs",
                                [i \in 1..Len(SubSurfaces(surf_name, surf_type,
                                                          p.surface_params.val))
                                   |-> Len(surfs) + i]))
                   @@ surf_dict]
    ELSE [err |-> "none",
          surfs |-> Append(surfs, NewSurface(surf_type, surf_name, p.surface_params.val)),
          surf_dict |-> (surf_name :> SurfEntry("surf", <<Len(surfs) + 1>>)) @@ surf_dict]

\* construct_and_store_openmc_surface(surf_card): [err, surfs, surf_dict]
construct_and_store_openmc_surface(surf_name, surf_type, surf_args) ==
    StoreSurface(surf_name, surf_type,
                 get_openmc_surface_params(surf_type, Floats(surf_args)))

----------------------------------------------------------------------------
(* Universe registry *)

\* the three parts of the registry a cell card can change
Registry(names, univ, objs) == [names |-> names, univ |-> univ, objs |-> objs]

\* add_cell_name_to_universe: appends to the membership list of univ_name, or
\* starts the list and binds univ_name to a new openmc.Universe
add_cell_name_to_universe(reg, univ_name, cell_name) ==
    IF univ_name \in DOMAIN reg.names /\ reg.names[univ_name] # <<>>
    THEN Registry([reg.names EXCEPT ![univ_name] = Append(@, cell_name)], reg.univ, reg.objs)
    ELSE Registry((univ_name :> <<cell_name>>) @@ reg.names,
                  (univ_name :> (Len(reg.objs) + 1)) @@ reg.univ,
                  Append(reg.objs, univ_name))

----------------------------------------------------------------------------
(* Region/Cell Builder *)

mat_dict == {<<"m">>}          \* the material names openmc.Materials.from_xml supplied

\* _strip_csg_operators
strip_csg_operators(csg_expression) ==
    Split(Replace(Replace(Replace(Replace(Replace(csg_expression,
        <<"-">>, <<" ">>), <<":">>, <<" ">>), <<"#">>, <<" ">>),
        <<"(">>, <<" ">>), <<")">>, <<" ">>))

\* _get_subsurf_region_expr_helper for the sign table pos (the other indices
\* are negative): "+id -id ... " with a trailing blank
RECURSIVE get_subsurf_region_expr_helper(_, _, _)
get_subsurf_region_expr_helper(ids, i, pos) ==
    IF i > Len(ids) THEN <<>>
    ELSE (IF (i - 1) \in pos THEN <<"+">> ELSE <<"-">>) \o Dec(ids[i]) \o <<" ">>
         \o get_subsurf_region_expr_helper(ids, i + 1, pos)

\* _get_subsurf_region_expr: [err, expr].  With 6 sub-surfaces the code
\* compares the first sub-surface object with the classes XPlane and YPlane;
\* an object equals neither, no sign table is bound and the call at line 398
\* raises UnboundLocalError.
get_subsurf_region_expr(ids) ==
    IF Len(ids) = 4
    THEN LET e == get_subsurf_region_expr_helper(ids, 1, {0, 2})
         IN  [err |-> "none", expr |-> <<"(">> \o SubSeq(e, 1, Len(e) - 1) \o <<")">>]
    ELSE IF Len(ids) = 6
    THEN [err |-> "UnboundLocalError", expr |-> <<>>]
    ELSE [err |-> "ValueError_subsurf", expr |-> <<>>]

\* lines 494-512: the boundary types given to the surfaces ids of one
\* referenced surface of an outside cell.  With 2 or 3 entries the isinstance
\* tests look at surface_object, which is a dict at this point, so none of
\* them holds and nothing is assigned; more than 3 entries match no branch.
ApplyBoundary(heap, ids) ==
    IF n_bcs = 1
    THEN [i \in DOMAIN heap |->
            IF i \in Range(ids) THEN [heap[i] EXCEPT !.boundary_type = surface_bc[1]]
            ELSE heap[i]]
    ELSE heap

\* lines 483-525, one pass of the loop per surface name.
\* acc = [err, surfs, ids, map, subs]
RECURSIVE CellSurfaceLoop(_, _, _)
CellSurfaceLoop(surface_names, cell_type, acc) ==
    IF surface_names = <<>> \/ acc.err # "none" THEN acc
    ELSE LET surface_name == surface_names[1]
             rest == Tail(surface_names)
         IN  IF surface_name \notin DOMAIN surf_dict
             THEN [acc EXCEPT !.err = "KeyError_surf"]
             ELSE LET entry == surf_dict[surface_name]
                  IN  IF entry.tag = "inf"
                      THEN [acc EXCEPT !.err = "AttributeError"]
                      ELSE LET heap == IF cell_type = "outside"
                                       THEN ApplyBoundary(acc.surfs, entry.ids)
                                       ELSE acc.surfs
                               sub == IF entry.tag = "subs"
                                      THEN get_subsurf_region_expr(entry.ids)
                                      ELSE [err |-> "none", expr |-> Dec(entry.ids[1])]
                           IN  CellSurfaceLoop(rest, cell_type,
                                 [err |-> sub.err,
                                  surfs |-> heap,
                                  ids |-> acc.ids \cup Range(entry.ids),
                                  map |-> (surface_name :> sub.expr) @@ acc.map,
                                  subs |-> IF entry.tag = "subs"
                                           THEN acc.subs \cup {surface_name}
                                           ELSE acc.subs])

\* lines 528-539: the operators are replaced, then every surface name by its
\* id or sub-surface expression.  Line 528 replaces the literal text
\* "\s[a-zA-Z0-9]", which no expression contains.
RECURSIVE SubstituteNames(_, _, _, _)
SubstituteNames(csg_expression, surface_names, map, subs) ==
    IF surface_names = <<>> THEN csg_expression
    ELSE LET surface_name == surface_names[1]
             e1 == IF surface_name \in subs
                   THEN Replace(Replace(csg_expression,
                                        <<"-">> \o surface_name, surface_name),
                                <<"+">> \o surface_name, <<"~">> \o surface_name)
                   ELSE csg_expression
         IN  SubstituteNames(Replace(e1, surface_name, map[surface_name]),
                             Tail(surface_names), map, subs)

ReplaceOperators(csg_expression) ==
    Replace(Replace(csg_expression, <<":">>, <<"|">>), <<"#">>, <<"~">>)


\* a half-space token of a region: the side and the id of the surface object
Halfspace(word, ids) ==
    IF ~IsIntText(word) THEN [err |-> "ValueError_int", tok |-> <<>>]
    ELSE LET j == IntOf(word)
             a == IF j < 0 THEN 0 - j ELSE j
         IN  IF a \notin ids THEN [err |-> "KeyError_region", tok |-> <<>>]
             ELSE [err |-> "none", tok |-> <<IF j < 0 THEN "-" ELSE "+", a>>]

Op(c) == <<c, 0>>

\* the index of the last blank of the run of blanks starting at i
RECURSIVE SkipBlanks(_, _)
SkipBlanks(e, i) == IF i < Len(e) /\ e[i + 1] = " " THEN SkipBlanks(e, i + 1) ELSE i

\* the tokenizer of openmc.Region.from_expression(expression, surfaces): the
\* infix token list (half-spaces, "(", ")", "|", "~", and " " for an
\* intersection); i_start = 0 stands for "not in a word"
RECURSIVE Tokenize(_, _, _, _, _)
Tokenize(e, i, i_start, tokens, ids) ==
    IF i > Len(e)
    THEN IF i_start > 0
         THEN LET h == Halfspace(SubSeq(e, i_start, Len(e)), ids)
              IN  [err |-> h.err, toks |-> IF h.err = "none" THEN Append(tokens, h.tok) ELSE tokens]
         ELSE [err |-> "none", toks |-> tokens]
    ELSE IF e[i] \in {"(", ")", "|", "~", " "}
    THEN LET h == IF i_start > 0 THEN Halfspace(SubSeq(e, i_start, i - 1), ids)
                  ELSE [err |-> "none", tok |-> <<>>]
             t1 == IF i_start > 0
                   THEN Append(tokens, h.tok) \o (IF e[i] = "(" THEN <<Op(" ")>> ELSE <<>>)
                   ELSE tokens
         IN  IF h.err # "none" THEN [err |-> h.err, toks |-> tokens]
             ELSE IF e[i] # " "
             THEN Tokenize(e, i + 1, 0,
                           Append(t1, Op(e[i]))
                             \o (IF e[i] = ")" /\ i < Len(e) /\ e[i + 1] = "(" THEN <<Op(" ")>> ELSE <<>>),
                           ids)
             ELSE LET k == SkipBlanks(e, i)
                      prev == i_start > 0 \/ (t1 # <<>> /\ t1[Len(t1)] = Op(")"))
                      nxt == k < Len(e) /\ e[k + 1] \notin {")", "|"}
                  IN  Tokenize(e, k + 1, 0,
                               IF prev /\ nxt THEN Append(t1, Op(" ")) ELSE t1, ids)
    ELSE IF e[i] \notin DigitChars \cup {"-", "+"}
    THEN [err |-> "SyntaxError", toks |-> tokens]
    ELSE Tokenize(e, i + 1, IF i_start > 0 THEN i_start ELSE i, tokens, ids)

from_expression(expression, ids) == Tokenize(Strip(expression), 1, 0, <<>>, ids)

\* the ids of the surfaces a region's half-spaces hold
RegionIds(region) == {region[i][2] : i \in {k \in DOMAIN region : region[k][1] \in {"+", "-"}}}


----------------------------------------------------------------------------
(* Card Classifier: the cell-card patterns, matched on token sequences *)

NamesAt(card, i, n) == Len(card) >= i + n - 1 /\ \A k \in i..(i + n - 1) : IsName(card[k])

\* CELL_REGEX1_CORE = cell(\s+[a-zA-Z0-9]+){3}, matched at token i
CELL_REGEX1_CORE(card, i) == card[i] = T_cell /\ NamesAt(card, i + 1, 3)
\* CELL_REGEX2_CORE = cell(\s+[a-zA-Z0-9]+){2}\s+fill\s+[a-zA-Z0-9]+
CELL_REGEX2_CORE(card, i) ==
    /\ card[i] = T_cell
    /\ NamesAt(card, i + 1, 2)
    /\ Len(card) >= i + 4
    /\ card[i + 3] = T_fill
    /\ IsName(card[i + 4])
\* CELL_REGEX3_CORE = cell(\s+[a-zA-Z0-9]+){2}\s+outside
CELL_REGEX3_CORE(card, i) ==
    /\ card[i] = T_cell
    /\ NamesAt(card, i + 1, 2)
    /\ Len(card) >= i + 3
    /\ card[i + 3] = T_outside

CoreAt(card, cell_type, i) ==
    IF cell_type = "fill" THEN CELL_REGEX2_CORE(card, i)
    ELSE IF cell_type = "outside" THEN CELL_REGEX3_CORE(card, i)
    ELSE CELL_REGEX1_CORE(card, i)
CoreLen(cell_type) == IF cell_type = "fill" THEN 5 ELSE 4

\* re.search(core, cell_card)
SearchCore(card, cell_type) == \E i \in 1..Len(card) : CoreAt(card, cell_type, i)

\* CELL_SURFACE_REGEX on the token after the core: -?:?#?[a-zA-Z0-9]+ ; the
\* trailing [^%]* of the card patterns takes the rest of the line
RECURSIVE DropPrefixes(_, _)
DropPrefixes(tok, ops) ==
    IF ops = <<>> THEN tok
    ELSE DropPrefixes(IF tok # <<>> /\ tok[1] = ops[1] THEN Tail(tok) ELSE tok, Tail(ops))
CELL_SURFACE_REGEX(tok) ==
    LET t == DropPrefixes(tok, <<"-", ":", "#">>) IN t # <<>> /\ t[1] \in AlnumChars

\* re.search(CELL_REGEX_ALL, line)
CELL_REGEX_ALL(card) ==
    \E cell_type \in {"fill", "outside", "material"} : \E i \in 1..Len(card) :
        /\ CoreAt(card, cell_type, i)
        /\ Len(card) >= i + CoreLen(cell_type)
        /\ CELL_SURFACE_REGEX(card[i + CoreLen(cell_type)])

\* the chain with its second and third branches exchanged
CellCardType_MaterialFirst(card) ==
    IF SearchCore(card, "fill") THEN "fill"
    ELSE IF SearchCore(card, "material") THEN "material"
    ELSE IF SearchCore(card, "outside") THEN "outside"
    ELSE "ValueError_cellcard"

\* the if/elif chain of the cell-card dispatch (converter, lines 365-375)
CellCardType(card) ==
    IF SearchCore(card, "fill") THEN "fill"
    ELSE IF SearchCore(card, "outside") THEN "outside"
    ELSE IF SearchCore(card, "material") THEN "material"
    ELSE "ValueError_cellcard"

\* re.split(cell_card_splitter, cell_card)[-1]: the tokens after the last
\* match of the splitter
RECURSIVE SplitLast(_, _)
SplitLast(card, cell_type) ==
    IF ~SearchCore(card, cell_type) THEN card
    ELSE LET i == CHOOSE k \in 1..Len(card) :
                    /\ CoreAt(card, cell_type, k)
                    /\ \A j \in 1..(k - 1) : ~CoreAt(card, cell_type, j)
         IN  SplitLast(SubSeq(card, i + CoreLen(cell_type), Len(card)), cell_type)


----------------------------------------------------------------------------
(* construct_openmc_cell *)

NoFill == [kind |-> "none", mat |-> <<>>, univ |-> 0]
MaterialFill(name) == [kind |-> "material", mat |-> name, univ |-> 0]
UniverseFill(id) == [kind |-> "universe", mat |-> <<>>, univ |-> id]
NoRegion == [none |-> TRUE, toks |-> <<>>]
Region(toks) == [none |-> FALSE, toks |-> toks]

\* lines 448-466: the fill object of the cell; a fill cell first binds its
\* filling universe to a new openmc.Universe when the table has none and the
\* name is not the root's.  [err, reg, fill]
ResolveFill(reg, card, cell_type) ==
    IF cell_type = "outside" THEN [err |-> "none", reg |-> reg, fill |-> NoFill]
    ELSE IF cell_type = "material"
    THEN IF card[4] \in mat_dict
         THEN [err |-> "none", reg |-> reg, fill |-> MaterialFill(card[4])]
         ELSE [err |-> "KeyError_mat", reg |-> reg, fill |-> NoFill]
    ELSE IF cell_type = "fill"
    THEN LET filling_universe_name == card[5]
             reg2 == IF filling_universe_name \notin DOMAIN reg.univ
                        /\ filling_universe_name # root_name
                     THEN Registry(reg.names,
                                   (filling_universe_name :> (Len(reg.objs) + 1)) @@ reg.univ,
                                   Append(reg.objs, filling_universe_name))
                     ELSE reg
         IN  IF filling_universe_name \in DOMAIN reg2.univ
             THEN [err |-> "none", reg |-> reg2,
                   fill |-> UniverseFill(reg2.univ[filling_universe_name])]
             ELSE [err |-> "KeyError_univ", reg |-> reg2, fill |-> NoFill]
    ELSE [err |-> "ValueError_celltype", reg |-> reg, fill |-> NoFill]

\* lines 540-541: the region parsed from the substituted expression; r is
\* what from_expression gave
RegionOf(heap, r) ==
    [err |-> r.err, surfs |-> heap,
     region |-> IF r.err = "none" THEN Region(r.toks) ELSE NoRegion]

\* lines 526-541, with acc what the loop over the surface names left
ExpressionRegion(csg_expression, surface_names, acc) ==
    IF acc.err # "none" THEN [err |-> acc.err, surfs |-> acc.surfs, region |-> NoRegion]
    ELSE RegionOf(acc.surfs,
                  from_expression(SubstituteNames(ReplaceOperators(csg_expression),
                                                  surface_names, acc.map, acc.subs),
                                  acc.ids))

\* lines 480-541: the generic case.  [err, surfs, region]
BuildRegion(csg_expression, surface_names, cell_type) ==
    ExpressionRegion(csg_expression, surface_names,
                     CellSurfaceLoop(surface_names, cell_type,
                                     [err |-> "none", surfs |-> surfs, ids |-> {},
                                      map |-> <<>>, subs |-> {}]))

\* a variant without the special case, which sends every expression through
\* the generic branch
CellRegion_Generic(csg_expression, surface_names, cell_type) ==
    IF cell_type = "material" /\ Len(surface_names) = 1
       /\ surface_names[1] \notin DOMAIN surf_dict
    THEN [err |-> "KeyError_surf", surfs |-> surfs, region |-> NoRegion]
    ELSE BuildRegion(csg_expression, surface_names, cell_type)

\* lines 471-541: the region of the cell, none for a material cell over the
\* single surface "inf".  [err, surfs, region]
CellRegion(csg_expression, surface_names, cell_type) ==
    IF cell_type = "material" /\ Len(surface_names) = 1
       /\ surface_names[1] \notin DOMAIN surf_dict
    THEN [err |-> "KeyError_surf", surfs |-> surfs, region |-> NoRegion]
    ELSE IF cell_type = "material" /\ Len(surface_names) = 1
            /\ surf_dict[surface_names[1]].tag = "inf"
    THEN [err |-> "none", surfs |-> surfs, region |-> NoRegion]
    ELSE BuildRegion(csg_expression, surface_names, cell_type)

\* what the call returns or raises, f being the resolved fill and b the region
CellResult(cell_name, f, b) ==
    [err |-> b.err, reg |-> f.reg, surfs |-> b.surfs,
     cell_name |-> cell_name, fill |-> f.fill, region |-> b.region]

\* lines 467-541, which a failed fill lookup does not reach
RegionAfterFill(f, csg_expression, cell_type) ==
    IF f.err # "none" THEN [err |-> f.err, surfs |-> surfs, region |-> NoRegion]
    ELSE CellRegion(csg_expression, strip_csg_operators(csg_expression), cell_type)

FilledCell(card, cell_type, f) ==
    CellResult(card[2], f, RegionAfterFill(f, JoinTail(SplitLast(card, cell_type)), cell_type))

\* construct_openmc_cell(cell_card, cell_card_splitter, cell_type):
\* [err, reg, surfs, cell_name, fill, region]
construct_openmc_cell(card, cell_type) ==
    FilledCell(card, cell_type,
               ResolveFill(add_cell_name_to_universe(
                               Registry(universe_to_cell_names_dict, universe_dict, univs),
                               card[3], card[2]),
                           card, cell_type))

Cell(name, fill, region) ==
    [name |-> name, fill |-> fill, region |-> region,
     translation |-> FALSE, rotation |-> FALSE]


----------------------------------------------------------------------------
(* Transformation Engine *)

\* openmc.Surface.translate / rotate: the result is a clone of the surface
\* with the next id of the id manager; the surface itself is left as it was
CloneSurface(s, trans_type) == [s EXCEPT !.trans = Append(@, trans_type)]

\* openmc.Region.translate / rotate: a new region over clones of its
\* surfaces, one clone per surface.  [surfs, toks]
RECURSIVE TransformRegion(_, _, _, _, _)
TransformRegion(heap, toks, trans_type, memo, done) ==
    IF toks = <<>> THEN [surfs |-> heap, toks |-> done]
    ELSE LET t == toks[1]
         IN  IF t[1] \notin {"+", "-"}
             THEN TransformRegion(heap, Tail(toks), trans_type, memo, Append(done, t))
             ELSE IF t[2] \in DOMAIN memo
             THEN TransformRegion(heap, Tail(toks), trans_type, memo,
                                  Append(done, <<t[1], memo[t[2]]>>))
             ELSE TransformRegion(Append(heap, CloneSurface(heap[t[2]], trans_type)),
                                  Tail(toks), trans_type,
                                  (t[2] :> (Len(heap) + 1)) @@ memo,
                                  Append(done, <<t[1], Len(heap) + 1>>))

\* a variant that transforms the region of every cell that has one, whatever
\* fills the cell
TransformCell_RegionToo(heap, cell, trans_type) ==
    IF ~cell.region.none
    THEN LET r == TransformRegion(heap, cell.region.toks, trans_type, <<>>, <<>>)
         IN  [err |-> "none", surfs |-> r.surfs,
              cell |-> [cell EXCEPT !.region = Region(r.toks)]]
    ELSE IF cell.fill.kind = "universe"
    THEN [err |-> "none", surfs |-> heap,
          cell |-> IF trans_type = "translation" THEN [cell EXCEPT !.translation = TRUE]
                   ELSE [cell EXCEPT !.rotation = TRUE]]
    ELSE [err |-> "SyntaxError_nothing", surfs |-> heap, cell |-> cell]

\* translate_obj / rotate_obj on a cell: [err, surfs, cell]
TransformCell(heap, cell, trans_type) ==
    IF cell.fill.kind = "universe"
    THEN [err |-> "none", surfs |-> heap,
          cell |-> IF trans_type = "translation" THEN [cell EXCEPT !.translation = TRUE]
                   ELSE [cell EXCEPT !.rotation = TRUE]]
    ELSE IF ~cell.region.none
    THEN LET r == TransformRegion(heap, cell.region.toks, trans_type, <<>>, <<>>)
         IN  [err |-> "none", surfs |-> r.surfs,
              cell |-> [cell EXCEPT !.region = Region(r.toks)]]
    ELSE [err |-> "SyntaxError_nothing", surfs |-> heap, cell |-> cell]

\* translate_obj / rotate_obj on an entry of surf_dict: [err, surfs, id].  An
\* entry that is no openmc.Surface (the "inf" sentinel, a sub-surface dict) is
\* refused.
TransformSurface(heap, entry, trans_type) ==
    IF entry.tag # "surf" THEN [err |-> "ValueError_transform", surfs |-> heap, id |-> 0]
    ELSE [err |-> "none",
          surfs |-> Append(heap, CloneSurface(heap[entry.ids[1]], trans_type)),
          id |-> Len(heap) + 1]

\* lines 406-442: the operations of the card, in order.  n_args is the number
\* of arguments after the target name, ORD the order flag (last argument).
TransTypes(n_args, ORD) ==
    IF n_args = 3 THEN <<"translation">>
    ELSE IF n_args \in {7, 13}
    THEN IF ORD = 1 THEN <<"rotation", "translation">>
         ELSE IF ORD = 2 THEN <<"translation", "rotation">>
         ELSE <<"ValueError_ORD">>
    ELSE <<"SyntaxError_args">>

\* lines 444-454 for a surface: every operation is applied to the object the
\* table held when the card was read, and the result of the last one is
\* stored under the object's name.  w = [err, surfs, surf_dict]
RECURSIVE TransformSurfaceCard(_, _, _)
TransformSurfaceCard(w, entry, trans_types) ==
    IF trans_types = <<>> \/ w.err # "none" THEN w
    ELSE LET r == TransformSurface(w.surfs, entry, trans_types[1])
         IN  TransformSurfaceCard(
                 [err |-> r.err, surfs |-> r.surfs,
                  surf_dict |-> IF r.err = "none"
                                THEN [w.surf_dict EXCEPT ![w.surfs[entry.ids[1]].name] =
                                                           SurfEntry("surf", <<r.id>>)]
                                ELSE w.surf_dict],
                 entry, Tail(trans_types))

\* lines 447-451 for the cells of a universe, one operation: the cell
\* objects are changed in place.  w = [err, surfs, cell_dict]
RECURSIVE TransformCells(_, _, _)
TransformCells(w, cell_names, trans_type) ==
    IF cell_names = <<>> \/ w.err # "none" THEN w
    ELSE LET r == TransformCell(w.surfs, w.cell_dict[cell_names[1]], trans_type)
         IN  TransformCells([err |-> r.err, surfs |-> r.surfs,
                             cell_dict |-> [w.cell_dict EXCEPT ![cell_names[1]] = r.cell]],
                            Tail(cell_names), trans_type)

RECURSIVE TransformUniverseCard(_, _, _)
TransformUniverseCard(w, cell_names, trans_types) ==
    IF trans_types = <<>> \/ w.err # "none" THEN w
    ELSE TransformUniverseCard(TransformCells(w, cell_names, trans_types[1]),
                               cell_names, Tail(trans_types))


----------------------------------------------------------------------------
(* The cards a geometry source is drawn from *)

Neg(name) == <<"-">> \o name

\* surface cards, as <<name, kind, numbers>>
SurfCards ==
    {<<<<"1">>, "px", <<Dec(1)>>>>, <<<<"1">>, "py", <<Dec(2)>>>>,
     <<<<"2">>, "py", <<Dec(3)>>>>,
     <<<<"2">>, "sqc", <<Dec(1), Dec(2), Dec(3)>>>>,
     <<<<"s", "1">>, "pz", <<Dec(4)>>>>, <<<<"s", "1">>, "inf", <<>>>>,
     <<<<"s", "1">>, "sqc", <<Dec(0), Dec(0), Dec(1)>>>>,
     <<<<"1">>, "octa", <<Dec(0), Dec(0), Dec(1)>>>>}

CellNames == {<<"a">>, <<"b">>}
UnivNames == {<<"0">>, <<"u">>}
MatNames == {<<"m">>, <<"x">>}          \* x is declared by no material card

\* the surface expressions of the cell cards
CellExprs ==
    {<<Neg(<<"1">>)>>,
     <<<<"2">>>>,
     <<<<"s", "1">>>>,
     <<Neg(<<"2">>), <<"1">>>>}

CellHeads ==
    {<<T_cell, n, u, m>> : n \in CellNames, u \in UnivNames, m \in MatNames}
    \cup {<<T_cell, n, u, T_fill, <<"u">>>> : n \in CellNames, u \in UnivNames}
    \cup {<<T_cell, n, u, T_outside>> : n \in CellNames, u \in UnivNames}
CellCards == {h \o e : h \in CellHeads, e \in CellExprs}

\* transformation cards, as <<target name, number of arguments, order flag>>
TransArgs == {<<3, 0>>, <<7, 1>>, <<13, 2>>, <<7, 3>>, <<4, 0>>}
TransSurfCards == {<<n, a[1], a[2]>> : n \in {<<"1">>, <<"2">>}, a \in TransArgs}
TransUnivCards == {<<n, a[1], a[2]>> : n \in UnivNames, a \in TransArgs}

BcLines == {<<>>,
            <<T_set, T_bc, <<"2">>, <<"2">>, <<"1">>>>,
            <<T_set, T_bc, <<"2">>, <<"4">>>>}
RootLines == {<<>>, <<T_set, T_root, <<"u">>>>}

\* what is kept of the card dispatched last: its kind, the name it registers
\* or targets, its type, for a cell card its universe, the surface names of
\* its expression and the expression, for a surface card its numbers, and
\* for the boundary line its tokens
Card(kind, name, type, univ, refs, args) ==
    [kind |-> kind, name |-> name, type |-> type, univ |-> univ, refs |-> refs,
     args |-> args]
NoCard == Card("none", <<>>, "none", <<>>, <<>>, <<>>)

----------------------------------------------------------------------------
(* The translation of one geometry source *)

\* no depletion code object is constructed by the geometry translation
NoDepcode ==
    /\ geo_files = <<>>
    /\ from_xml_path = ""
    /\ geometry_xml = ""
    /\ geo_files_given = <<>>
    /\ calls = <<>>

\* no Simulation object and no Serpent template
NoSimulation ==
    /\ files = {}
    /\ files_before = {}
    /\ restart_flag = FALSE
    /\ template_data = <<>>
    /\ template_given = <<>>
    /\ reactor = <<>>
    /\ current_depstep_idx = 0

Init ==
    /\ pc = "start"
    /\ err = "none"
    /\ ncards = 0
    /\ surface_bc = <<>>
    /\ root_name = <<>>
    /\ surf_dict = <<>>
    /\ surfs = <<>>
    /\ cell_dict = <<>>
    /\ universe_dict = <<>>
    /\ univs = <<>>
    /\ universe_to_cell_names_dict = <<>>
    /\ last = NoCard
    /\ lat_in = <<>>
    /\ lat_out = <<>>
    /\ cls_card = <<>>
    /\ cls_out = "none"
    /\ NoDepcode
    /\ NoSimulation

\* surface_bc, root_name = get_boundary_conditions_and_root(geo_data)
ReadBoundaryOf(bc_lines, root_lines) ==
    /\ pc = "start"
    /\ \E bc_line \in bc_lines, root_line \in root_lines :
         \E r \in {get_boundary_conditions_and_root(bc_line, root_line)} :
             /\ err' = r.err
             /\ surface_bc' = r.surface_bc
             /\ root_name' = r.root_name
             /\ last' = Card("bc", <<>>, "bc", <<>>, <<>>, bc_line)
    /\ pc' = "scan"
    /\ UNCHANGED <<ncards, surf_dict, surfs, cell_dict, universe_dict, univs,
                   universe_to_cell_names_dict, latVars, clsVars, depVars, simVars>>

Scanning(max) == pc = "scan" /\ err = "none" /\ ncards < max

\* a line matching SURF_REGEX
SurfCardOf(cards, max) ==
    /\ Scanning(max)
    /\ \E surf_card \in cards :
         \E r \in {construct_and_store_openmc_surface(surf_card[1], surf_card[2], surf_card[3])} :
             /\ err' = r.err
             /\ surfs' = r.surfs
             /\ surf_dict' = r.surf_dict
             /\ last' = Card("surf", surf_card[1], surf_card[2], <<>>, <<>>, surf_card[3])
    /\ ncards' = ncards + 1
    /\ UNCHANGED <<pc, surface_bc, root_name, cell_dict, universe_dict, univs,
                   universe_to_cell_names_dict, latVars, clsVars, depVars, simVars>>

\* a line matching CELL_REGEX_ALL: the dispatch of lines 363-380
CellCardOf(cards, max) ==
    /\ Scanning(max)
    /\ \E cell_card \in cards :
         /\ CELL_REGEX_ALL(cell_card)
         /\ \E cell_type \in {CellCardType(cell_card)} :
            \E r \in {construct_openmc_cell(cell_card, cell_type)} :
                /\ err' = r.err
                /\ surfs' = r.surfs
                /\ universe_to_cell_names_dict' = r.reg.names
                /\ universe_dict' = r.reg.univ
                /\ univs' = r.reg.objs
                /\ cell_dict' = IF r.err = "none"
                                THEN (r.cell_name :> Cell(r.cell_name, r.fill, r.region))
                                     @@ cell_dict
                                ELSE cell_dict
                /\ last' = Card("cell", cell_card[2], cell_type, cell_card[3],
                                 strip_csg_operators(JoinTail(SplitLast(cell_card, cell_type))),
                                 JoinTail(SplitLast(cell_card, cell_type)))
    /\ ncards' = ncards + 1
    /\ UNCHANGED <<pc, surface_bc, root_name, surf_dict, latVars, clsVars, depVars, simVars>>

\* a line matching TRANS_REGEX with target type S
TransSurfCardOf(cards, max) ==
    /\ Scanning(max)
    /\ \E trans_card \in cards :
         \E name \in {trans_card[1]}, trans_types \in {TransTypes(trans_card[2], trans_card[3])} :
         \E w \in {IF name \notin DOMAIN surf_dict
                    THEN [err |-> "KeyError_trans", surfs |-> surfs, surf_dict |-> surf_dict]
                    ELSE IF trans_types[1] \notin {"translation", "rotation"}
                    THEN [err |-> trans_types[1], surfs |-> surfs, surf_dict |-> surf_dict]
                    ELSE TransformSurfaceCard(
                             [err |-> "none", surfs |-> surfs, surf_dict |-> surf_dict],
                             surf_dict[name], trans_types)} :
             /\ err' = w.err
             /\ surfs' = w.surfs
             /\ surf_dict' = w.surf_dict
             /\ last' = Card("trans", name, "S", <<>>, <<>>,
                              <<trans_card[2], trans_card[3]>>)
    /\ ncards' = ncards + 1
    /\ UNCHANGED <<pc, surface_bc, root_name, cell_dict, universe_dict, univs,
                   universe_to_cell_names_dict, latVars, clsVars, depVars, simVars>>

\* a line matching TRANS_REGEX with target type U
TransUnivCardOf(cards, max) ==
    /\ Scanning(max)
    /\ \E trans_card \in cards :
         \E name \in {trans_card[1]}, trans_types \in {TransTypes(trans_card[2], trans_card[3])} :
         \E w \in {IF name \notin DOMAIN universe_to_cell_names_dict
                    THEN [err |-> "KeyError_trans", surfs |-> surfs, cell_dict |-> cell_dict]
                    ELSE IF trans_types[1] \notin {"translation", "rotation"}
                    THEN [err |-> trans_types[1], surfs |-> surfs, cell_dict |-> cell_dict]
                    ELSE TransformUniverseCard(
                             [err |-> "none", surfs |-> surfs, cell_dict |-> cell_dict],
                             universe_to_cell_names_dict[name], trans_types)} :
             /\ err' = w.err
             /\ surfs' = w.surfs
             /\ cell_dict' = w.cell_dict
             /\ last' = Card("trans", name, "U", <<>>, <<>>,
                              <<trans_card[2], trans_card[3]>>)
    /\ ncards' = ncards + 1
    /\ UNCHANGED <<pc, surface_bc, root_name, surf_dict, universe_dict, univs,
                   universe_to_cell_names_dict, latVars, clsVars, depVars, simVars>>

ReadBoundary == ReadBoundaryOf(BcLines, RootLines)
SurfCard == SurfCardOf(SurfCards, MaxCards)
CellCard == CellCardOf(CellCards, MaxCards)
TransSurfCard == TransSurfCardOf(TransSurfCards, MaxCards)
TransUnivCard == TransUnivCardOf(TransUnivCards, MaxCards)

Next ==
    \/ ReadBoundary
    \/ SurfCard
    \/ CellCard
    \/ TransSurfCard
    \/ TransUnivCard

Spec == Init /\ [][Next]_vars


----------------------------------------------------------------------------
(* Properties of the registries *)

\* the ids of the surfaces and sub-surfaces the surface table holds
TableIds == UNION {Range(surf_dict[n].ids) : n \in DOMAIN surf_dict}

CardStep == ncards' = ncards + 1

\* C1: a fill cell whose fill universe U has had cells declared holds, as its
\* fill, the very universe object the universe table maps U to: a placeholder
\* created for a forward reference is resolved, not replaced by a second
\* universe object for U.
C1_PlaceholderResolved ==
    err = "none" => \A c \in DOMAIN cell_dict :
        LET f == cell_dict[c].fill
        IN  (f.kind = "universe" /\ univs[f.univ] \in DOMAIN universe_to_cell_names_dict)
                => universe_dict[univs[f.univ]] = f.univ

\* C2: a material cell card whose material is not in the material table
\* raises and performs no partial registration: the universe table and the
\* universe-to-cell-names table are as they were before the call.
C2_NoPartialRegistration ==
    [][err' = "KeyError_mat" =>
          /\ universe_dict' = universe_dict
          /\ universe_to_cell_names_dict' = universe_to_cell_names_dict]_vars

\* C3: registering a surface, cell or universe under a name already in its
\* table aborts the translation and leaves the earlier entry as it was.
C3_DuplicateNameFatal ==
    [][CardStep =>
          /\ (last'.kind = "surf" /\ last'.name \in DOMAIN surf_dict)
                => (err' # "none" /\ surf_dict' = surf_dict)
          /\ (last'.kind = "cell" /\ last'.name \in DOMAIN cell_dict)
                => (err' # "none" /\ cell_dict' = cell_dict)
          /\ last'.kind = "cell"
                => \A u \in DOMAIN universe_dict : universe_dict'[u] = universe_dict[u]]_vars

\* C4: every surface id referenced by the region of a built cell is the id of
\* a surface or sub-surface held in the surface table.
C4_NoDanglingIds ==
    err = "none" =>
        \A c \in DOMAIN cell_dict : RegionIds(cell_dict[c].region.toks) \subseteq TableIds

\* C5: a surface transformation creates no new entity: the surface table maps
\* the name to the same surface as before the card, and that surface is the
\* transformed one, so the regions built before the card observe it.
C5_TransformInPlace ==
    [][(CardStep /\ last'.kind = "trans" /\ last'.type = "S" /\ err' = "none") =>
          /\ surf_dict'[last'.name].ids = surf_dict[last'.name].ids
          /\ Len(surfs') = Len(surfs)
          /\ surfs'[surf_dict[last'.name].ids[1]].trans # <<>>]_vars

----------------------------------------------------------------------------
(* Boundary conditions on the surfaces of outside cells *)

MaxBndCards == 4

BndBcLines ==
    {<<>>,
     <<T_set, T_bc, <<"2">>>>,
     <<T_set, T_bc, <<"2">>, <<"2">>, <<"1">>>>,
     <<T_set, T_bc, <<"2">>, <<"1">>>>,
     <<T_set, T_bc, <<"1">>, <<"2">>, <<"3">>, <<"1">>>>}

BndSurfCards ==
    {<<<<"1">>, "px", <<Dec(1)>>>>, <<<<"2">>, "py", <<Dec(2)>>>>,
     <<<<"3">>, "pz", <<Dec(3)>>>>}

BndCellCards ==
    {<<T_cell, <<"a">>, <<"0">>, T_outside>> \o e :
        e \in {<<Neg(<<"1">>)>>,
               <<Neg(<<"1">>), <<"2">>>>,
               <<Neg(<<"1">>), <<"2">>, <<"3">>>>}}
    \cup {<<T_cell, <<"b">>, <<"0">>, <<"m">>, Neg(<<"1">>)>>}

ReadBoundaryBnd == ReadBoundaryOf(BndBcLines, {<<>>})
SurfCardBnd == SurfCardOf(BndSurfCards, MaxBndCards)
CellCardBnd == CellCardOf(BndCellCards, MaxBndCards)

NextBnd ==
    \/ ReadBoundaryBnd
    \/ SurfCardBnd
    \/ CellCardBnd

SpecBnd == Init /\ [][NextBnd]_vars

\* the card dispatched last built an outside cell
OutsideBuilt == last.kind = "cell" /\ last.type = "outside" /\ err = "none"

\* the surface object the surface table holds under a referenced name
SurfaceOf(name) == surfs[surf_dict[name].ids[1]]

\* C7: with 2 or 3 boundary entries, an outside cell assigns entry 0 to the
\* X-planes it references, entry 1 to its Y-planes and entry 2 to its Z-planes.
C7_PerAxisAssignment ==
    (OutsideBuilt /\ n_bcs \in {2, 3}) =>
        \A i \in DOMAIN last.refs :
            LET s == SurfaceOf(last.refs[i])
            IN  /\ s.type = "px" => s.boundary_type = surface_bc[1]
                /\ s.type = "py" => s.boundary_type = surface_bc[2]
                /\ (s.type = "pz" /\ n_bcs = 3) => s.boundary_type = surface_bc[3]

\* C8: no outside cell is built while the boundary-condition list has more
\* than 3 entries: the cell builder raises.
C8_TooManyEntriesRaise ==
    (last.kind = "cell" /\ last.type = "outside" /\ n_bcs > 3) => err # "none"

----------------------------------------------------------------------------
(* Classification of single lines by the cell-card patterns *)

MaxClsLen == 6

ClsTokens == {T_cell, T_fill, T_outside, <<"a">>, Neg(<<"1">>)}

RECURSIVE SeqsOfLen(_, _)
SeqsOfLen(S, n) ==
    IF n = 0 THEN {<<>>}
    ELSE {<<x>> \o t : x \in S, t \in SeqsOfLen(S, n - 1)}

ClsLines == SeqsOfLen(ClsTokens, MaxClsLen - 1) \cup SeqsOfLen(ClsTokens, MaxClsLen)

InitCls ==
    /\ pc = "line"
    /\ err = "none"
    /\ ncards = 0
    /\ surface_bc = <<>>
    /\ root_name = <<>>
    /\ surf_dict = <<>>
    /\ surfs = <<>>
    /\ cell_dict = <<>>
    /\ universe_dict = <<>>
    /\ univs = <<>>
    /\ universe_to_cell_names_dict = <<>>
    /\ last = NoCard
    /\ lat_in = <<>>
    /\ lat_out = <<>>
    /\ cls_card \in ClsLines
    /\ cls_out = "none"
    /\ NoDepcode
    /\ NoSimulation

\* elif re.search(CELL_REGEX_ALL, line): the if/elif chain names the cell type
ClassifyCell ==
    /\ pc = "line"
    /\ CELL_REGEX_ALL(cls_card)
    /\ cls_out' = CellCardType(cls_card)
    /\ pc' = "classified"
    /\ UNCHANGED <<err, ncards, surface_bc, root_name, surf_dict, surfs, cell_dict,
                   universe_dict, univs, universe_to_cell_names_dict, last,
                   latVars, cls_card, depVars, simVars>>

\* the line matches none of the cell-card patterns: the cell branch is not taken
SkipLine ==
    /\ pc = "line"
    /\ ~CELL_REGEX_ALL(cls_card)
    /\ cls_out' = "skipped"
    /\ pc' = "skipped"
    /\ UNCHANGED <<err, ncards, surface_bc, root_name, surf_dict, surfs, cell_dict,
                   universe_dict, univs, universe_to_cell_names_dict, last,
                   latVars, cls_card, depVars, simVars>>

NextCls ==
    \/ ClassifyCell
    \/ SkipLine

SpecCls == InitCls /\ [][NextCls]_vars

\* C6 (as the code has it): a cell card is classified CellFill exactly when
\* the fill pattern matches, CellOutside exactly when the outside pattern
\* matches and the fill pattern does not, and CellMaterial exactly when only
\* the material pattern matches; every cell card gets one of the three types.
C6_FillOutsideMaterial ==
    pc = "classified" =>
        /\ cls_out \in {"fill", "outside", "material"}
        /\ cls_out = "fill" <=> SearchCore(cls_card, "fill")
        /\ cls_out = "outside" <=>
              (~SearchCore(cls_card, "fill") /\ SearchCore(cls_card, "outside"))
        /\ cls_out = "material" <=>
              (~SearchCore(cls_card, "fill") /\ ~SearchCore(cls_card, "outside")
               /\ SearchCore(cls_card, "material"))

\* a card that both the outside and the material pattern match has been classified
C6_OutsideOverMaterial ==
    /\ pc = "classified"
    /\ SearchCore(cls_card, "outside")
    /\ SearchCore(cls_card, "material")
    /\ ~SearchCore(cls_card, "fill")
    /\ cls_out = "outside"

\* C6 (as stated): fill has priority over material, material over outside.
C6_FillMaterialOutside ==
    pc = "classified" =>
        cls_out = IF SearchCore(cls_card, "fill") THEN "fill"
                  ELSE IF SearchCore(cls_card, "material") THEN "material"
                  ELSE "outside"

----------------------------------------------------------------------------
(* Universe/Lattice Registry: get_lattice_univ_array *)

T_surf == <<"s", "u", "r", "f">>
T_lat == <<"l", "a", "t">>
T_trans == <<"t", "r", "a", "n", "s">>

\* the card words CARD_IGNORE_REGEX excludes from a continuation line
CARD_IGNORE_WORDS == {T_lat, T_cell, T_set, T_surf, T_trans}

\* re.search(LAT_MULTILINE_REGEX, line): no card word on the line, and a first
\* token of one to three alphanumeric characters
LAT_MULTILINE_REGEX(line) ==
    /\ line # <<>>
    /\ \A i \in 1..Len(line) : line[i] \notin CARD_IGNORE_WORDS
    /\ IsName(line[1])
    /\ Len(line[1]) <= 3

StrItem(name) == [kind |-> "str", val |-> <<name>>]
ListItem(names) == [kind |-> "list", val |-> names]

RECURSIVE StrItems(_)
StrItems(names) ==
    IF names = <<>> THEN <<>> ELSE <<StrItem(Head(names))>> \o StrItems(Tail(names))

\* the while loop of lines 609-615 over the lines after the lattice card,
\* entered at line i with a match
RECURSIVE LatticeRows(_, _, _)
LatticeRows(following, i, lat_univ_names) ==
    LET appended == Append(lat_univ_names, ListItem(following[i]))
    IN  IF i + 1 > Len(following)
        THEN [err |-> "IndexError", names |-> appended]
        ELSE IF LAT_MULTILINE_REGEX(following[i + 1])
        THEN LatticeRows(following, i + 1, appended)
        ELSE [err |-> "none", names |-> appended]

\* following holds geo_data[current_line_idx + 1:]
get_lattice_universe_names(following, lattice_args, lat_univ_index) ==
    IF following = <<>> THEN [err |-> "IndexError", names |-> <<>>]
    ELSE LET lat_univ_names ==
                 StrItems(SubSeq(lattice_args, lat_univ_index + 1, Len(lattice_args)))
         IN  IF LAT_MULTILINE_REGEX(following[1])
             THEN LatticeRows(following, 1, lat_univ_names)
             ELSE [err |-> "none", names |-> lat_univ_names]

RECURSIVE Flatten(_)
Flatten(items) ==
    IF items = <<>> THEN <<>> ELSE Head(items).val \o Flatten(Tail(items))

\* np.array(lat_univ_names): a list of strings, or of lists of one length;
\* any other list is ragged and fails, here or at the first use of the array
np_array(items) ==
    IF \/ \A i \in DOMAIN items : items[i].kind = "str"
       \/ \A i, j \in DOMAIN items :
            items[i].kind = "list" /\ Len(items[i].val) = Len(items[j].val)
    THEN [err |-> "none", flat |-> Flatten(items)]
    ELSE [err |-> "ValueError_ragged", flat |-> <<>>]

\* np.reshape(a, (n0, n1)), row-major
np_reshape(flat, n0, n1) ==
    IF Len(flat) # n0 * n1 THEN [err |-> "ValueError_reshape", rows |-> <<>>]
    ELSE [err |-> "none",
          rows |-> [r \in 1..n0 |-> SubSeq(flat, (r - 1) * n1 + 1, r * n1)]]

\* np.flip(a, axis=0)
np_flip(rows) == [r \in 1..Len(rows) |-> rows[Len(rows) + 1 - r]]

\* lattice_elements.index(Ncoord)
IndexOf(tuple, x) == CHOOSE i \in 1..Len(tuple) : tuple[i] = x /\ \A j \in 1..(i - 1) : tuple[j] # x

\* the loop of lines 696-698 over an array np.empty left uninitialized;
\* 0.5 * pitch is exact for the even pitches of the lattice cards
RECURSIVE OriginLoop(_, _, _, _)
OriginLoop(lattice_elements, lattice_pitch, k, lattice_origin) ==
    IF k > Len(lattice_elements) THEN lattice_origin
    ELSE LET Ncoord == lattice_elements[k]
             index == IndexOf(lattice_elements, Ncoord)
         IN  OriginLoop(lattice_elements, lattice_pitch, k + 1,
                        [lattice_origin EXCEPT ![index] = (Ncoord * lattice_pitch[index]) \div 2])

\* re.match("(1|2|3)", lattice_type) and re.match("(1|6|11)", lattice_type)
MatchesFirst(lattice_type, chars) == lattice_type # <<>> /\ lattice_type[1] \in chars

NoLattice(e) == [err |-> e, lattice_origin |-> <<>>, lattice_pitch |-> <<>>,
                 lattice_universe_array |-> <<>>]

\* empty holds what np.empty left in the origin array
get_lattice_univ_array(lattice_type, lattice_args, following, empty) ==
    IF ~MatchesFirst(lattice_type, {"1", "2", "3"}) THEN NoLattice("ValueError_unsupported")
    ELSE
    LET Nx == IntOf(lattice_args[3])
        Ny == IntOf(lattice_args[4])
        pitch == IntOf(lattice_args[5])
        lat_univ_index == 8
        lattice_elements == <<Nx, Ny>>
        lattice_pitch == <<pitch, pitch>>
        lat_univ_names == get_lattice_universe_names(following, lattice_args, lat_univ_index)
        arr == np_array(lat_univ_names.names)
        lattice_universe_name_array == np_reshape(arr.flat, Nx, Ny)
        flipped == np_flip(lattice_universe_name_array.rows)
    IN  IF lat_univ_names.err # "none" THEN NoLattice(lat_univ_names.err)
        ELSE IF arr.err # "none" THEN NoLattice(arr.err)
        ELSE IF lattice_universe_name_array.err # "none"
        THEN NoLattice(lattice_universe_name_array.err)
        ELSE IF ~MatchesFirst(lattice_type, {"1", "6"}) THEN NoLattice("ValueError_unsupported")
        ELSE IF \E n \in Range(arr.flat) : n \notin DOMAIN universe_dict
        THEN NoLattice("KeyError_univ")
        ELSE [err |-> "none",
              lattice_origin |-> OriginLoop(lattice_elements, lattice_pitch, 1, empty),
              lattice_pitch |-> lattice_pitch,
              lattice_universe_array |->
                  [r \in 1..Nx |-> [c \in 1..Ny |-> universe_dict[flipped[r][c]]]]]

----------------------------------------------------------------------------
(* Lattice cards in a geometry source *)

MaxLatCards == 4

LatSurfCards == {<<<<"1">>, "px", <<Dec(1)>>>>}
LatCellCards == {<<T_cell, <<"a">>, <<"u">>, <<"m">>, Neg(<<"1">>)>>,
                 <<T_cell, <<"b">>, <<"v">>, <<"m">>, Neg(<<"1">>)>>}

\* the lattice kinds of the cards
LatTypes == {Dec(1), Dec(2), Dec(3), Dec(6), Dec(7), Dec(11), Dec(12), Dec(13)}
\* (Nx, Ny) and the pitch
LatDims == {<<1, 1>>, <<1, 2>>, <<2, 1>>, <<2, 2>>}
LatPitches == {2, 10}
\* the universe names on the card itself
LatInline == {<<>>, <<<<"u">>, <<"v">>, <<"u">>, <<"v">>>>}
\* the lines after the card: rows of names, and a surface card
RowUV == <<<<"u">>, <<"v">>>>
RowVU == <<<<"v">>, <<"u">>>>
RowV == <<<<"v">>>>
SurfLine == <<T_surf, <<"2">>, <<"p", "y">>, <<"0">>>>
LatFollowing ==
    {<<>>, <<SurfLine>>, <<RowUV>>, <<RowV, SurfLine>>, <<RowUV, SurfLine>>,
     <<RowUV, RowVU>>, <<RowUV, RowVU, SurfLine>>, <<RowV, RowUV, SurfLine>>,
     <<RowV, RowV, SurfLine>>}
\* what np.empty may have left in an origin array
Garbage == {<<0, 0>>, <<10, 10>>, <<7, 3>>}

lattice_args_of(dims, pitch, inline) ==
    <<Dec(0), Dec(0), Dec(dims[1]), Dec(dims[2]), Dec(pitch)>> \o inline

SurfCardLat == SurfCardOf(LatSurfCards, MaxLatCards)
CellCardLat == CellCardOf(LatCellCards, MaxLatCards)
ReadBoundaryLat == ReadBoundaryOf({<<>>}, {<<>>})

\* a line matching LAT_REGEX
LatCard ==
    /\ Scanning(MaxLatCards)
    /\ \E lattice_type \in LatTypes, dims \in LatDims, pitch \in LatPitches,
          inline \in LatInline, following \in LatFollowing, empty \in Garbage :
         \E lattice_args \in {lattice_args_of(dims, pitch, inline)} :
         \E r \in {get_lattice_univ_array(lattice_type, lattice_args, following, empty)} :
             /\ lat_in' = [lattice_type |-> lattice_type, lattice_args |-> lattice_args,
                           following |-> following]
             /\ lat_out' = r
             /\ err' = r.err
             /\ last' = Card("lat", <<>>, "lat", <<>>, <<>>, <<>>)
    /\ ncards' = ncards + 1
    /\ UNCHANGED <<pc, surface_bc, root_name, surf_dict, surfs, cell_dict, universe_dict,
                   univs, universe_to_cell_names_dict, clsVars, depVars, simVars>>

NextLat ==
    \/ ReadBoundaryLat
    \/ SurfCardLat
    \/ CellCardLat
    \/ LatCard

SpecLat == Init /\ [][NextLat]_vars

LatBuilt == last.kind = "lat" /\ err = "none"
LatNx == IntOf(lat_in.lattice_args[3])
LatNy == IntOf(lat_in.lattice_args[4])
LatPitch == IntOf(lat_in.lattice_args[5])
LatKind == IntOf(lat_in.lattice_type)

\* C9: the origin returned for a square/rectangular lattice is
\* (Nx * 0.5 * pitch, Ny * 0.5 * pitch), for Nx = Ny too.
C9_OriginPerAxis ==
    LatBuilt =>
        lat_out.lattice_origin = <<(LatNx * LatPitch) \div 2, (LatNy * LatPitch) \div 2>>

\* C10: a lattice array is returned only for the kinds 1, 6 and 11 (every
\* other kind fails), and none of the three kinds is rejected as unsupported.
C10_SupportedKinds ==
    last.kind = "lat" =>
        /\ LatKind \notin {1, 6, 11} => err # "none"
        /\ LatKind \in {1, 6, 11} => err # "ValueError_unsupported"

\* C11: a lattice card never fails on a universe name the universe table does
\* not hold yet (the name is given a placeholder), so a lattice whose names
\* reshape to its dimensions has a universe at every grid position.
C11_LatticeNamesResolved ==
    last.kind = "lat" => err # "KeyError_univ"


\* C12: the id of a surface registered under an integer name is the integer
\* value of that name, whatever surfaces were created before it.
C12_IdFromName ==
    \A n \in DOMAIN surf_dict :
        (surf_dict[n].tag = "surf" /\ IsIntText(n)) => surf_dict[n].ids = <<IntOf(n)>>


----------------------------------------------------------------------------
(* Surface cards with their numbers *)

MaxSurfCards == 3

Num(n) == IF n < 0 THEN <<"-">> \o Dec(0 - n) ELSE Dec(n)
Nums(ns) == [i \in DOMAIN ns |-> Num(ns[i])]

\* surf <name> <kind> <numbers>: primitives, the two forms of a plane card,
\* square prisms under an integer and under another name, hexagonal prisms,
\* and kinds geo_dict
\* maps to None or does not hold
ParamSurfCards ==
    {<<<<"1">>, "px", Nums(<<2>>)>>,
     <<<<"1">>, "pz", Nums(<<-3>>)>>,
     <<<<"2">>, "sph", Nums(<<0, 0, 0, 3>>)>>,
     <<<<"3">>, "cyl", Nums(<<1, 2, 3>>)>>,
     <<<<"3">>, "quadratic", Nums(<<1, 2, 3, 4, 5, 6, 7, 8, 9, 10>>)>>,
     <<<<"4">>, "plane", Nums(<<1, 1, 1, 1>>)>>,
     <<<<"5">>, "plane", Nums(<<1, 0, 0, 0, 1, 0, 0, 0, 1>>)>>,
     <<<<"6">>, "sqc", Nums(<<0, 0, 5>>)>>,
     <<<<"6">>, "sqc", Nums(<<1, -2, 3>>)>>,
     <<<<"s", "1">>, "sqc", Nums(<<0, 0, 5>>)>>,
     <<<<"9">>, "hexxc", Nums(<<0, 0, 2>>)>>,
     <<<<"9">>, "hexyc", Nums(<<0, 0, 2>>)>>,
     <<<<"7">>, "octa", Nums(<<0, 0, 5>>)>>,
     <<<<"7">>, "pad", Nums(<<0, 0, 1, 2, 0, 90>>)>>,
     <<<<"8">>, "box", Nums(<<0, 0, 5>>)>>,
     <<<<"i">>, "inf", <<>>>>}

\* cells over the surfaces of the cards
ParamCellCards ==
    {<<T_cell, <<"a">>, <<"0">>, <<"m">>>> \o e :
        e \in {<<Neg(<<"6">>)>>, <<<<"6">>>>, <<Neg(<<"9">>)>>, <<Neg(<<"2">>), <<"1">>>>,
               <<Neg(<<"1">>)>>}}

ReadBoundarySurf == ReadBoundaryOf({<<>>}, {<<>>})
SurfCardSurf == SurfCardOf(ParamSurfCards, MaxSurfCards)
CellCardSurf == CellCardOf(ParamCellCards, MaxSurfCards)

NextSurf == ReadBoundarySurf \/ SurfCardSurf \/ CellCardSurf
SpecSurf == Init /\ [][NextSurf]_vars

\* the kinds whose numbers are the constructor's arguments as they are
GenericKinds ==
    {"px", "py", "pz", "plane", "cylx", "cyly", "cylz", "cyl", "sph", "cone",
     "quadratic", "torx", "tory", "torz"}

\* the card read last was a surface card of one of the kinds
SurfCardRead(kinds) == last.kind = "surf" /\ last.type \in kinds

\* C13: a card of a generic primitive kind (a plane card in its 4-coefficient
\* form) registers under its name a surface whose coefficients are the
\* numbers of the card, in card order.
C13_ParamsPassThrough ==
    (SurfCardRead(GenericKinds) /\ (last.type = "plane" => Len(last.args) = 4))
        => /\ err = "none"
           /\ last.name \in DOMAIN surf_dict
           /\ surf_dict[last.name].tag = "surf"
           /\ surfs[surf_dict[last.name].ids[1]].coeffs = Floats(last.args)


\* C14: a plane card with 9 numbers registers a plane whose four coefficients
\* are the cross product of the edge vectors and its dot product with the
\* negated first point; for the points (1,0,0), (0,1,0), (0,0,1) they are
\* proportional to (1,1,1,-1), and nothing is raised.
C14_ThreePointPlane ==
    (SurfCardRead({"plane"}) /\ Len(last.args) = 9)
        => /\ err = "none"
           /\ last.name \in DOMAIN surf_dict
           /\ surfs[surf_dict[last.name].ids[1]].coeffs
                = PlaneNormal(Floats(last.args)) \o <<PlaneD(Floats(last.args))>>
           /\ last.args = Nums(<<1, 0, 0, 0, 1, 0, 0, 0, 1>>)
                => \E k \in {-1, 1} :
                      surfs[surf_dict[last.name].ids[1]].coeffs = <<k, k, k, 0 - k>>


\* the kinds the surface builder supports
SupportedKinds ==
    GenericKinds \cup {"cylv", "sqc", "rect", "hexxc", "hexyc", "cube", "cuboid", "inf"}

\* C15: a surface card of a kind outside the supported set (octa and pad
\* included) fails with the unsupported-kind error and leaves the surface
\* table and the surfaces as they were.
C15_UnsupportedKindFails ==
    [][(CardStep /\ last'.kind = "surf" /\ last'.type \notin SupportedKinds)
          => (err' = "ValueError_surf" /\ surf_dict' = surf_dict /\ surfs' = surfs)]_vars

\* an octa card was read after a surface had been registered, and it failed
C15_OctaRejected ==
    /\ SurfCardRead({"octa"})
    /\ err = "ValueError_surf"
    /\ surf_dict # <<>>


\* the side of the point pt the axis plane s puts it on: positive, negative
\* or 0 on the plane
PlaneSide(s, pt) ==
    IF s.type = "px" THEN pt[1] - s.coeffs[1] ELSE pt[2] - s.coeffs[1]

\* pt is in the intersection of the half-spaces of the tokens toks
Contains(toks, heap, pt) ==
    \A i \in DOMAIN toks :
        /\ toks[i][1] = "+" => PlaneSide(heap[toks[i][2]], pt) > 0
        /\ toks[i][1] = "-" => PlaneSide(heap[toks[i][2]], pt) < 0

ProbePoints == {<<x, y>> : x \in -7..7, y \in -7..7}

Abs(x) == IF x < 0 THEN 0 - x ELSE x

\* the region the sign table of _get_subsurf_region_expr gives the
\* sub-surfaces ids
SignTableRegion(ids) == from_expression(get_subsurf_region_expr(ids).expr, Range(ids))

\* C16: a sqc card x0 y0 d registers exactly 4 sub-surface planes, two per
\* axis, and the region of the rectangular sign table over them holds exactly
\* the points of the open square of half-width d about (x0, y0): with
\* 0 0 5, (0,0) is inside and (6,0) is outside.
C16_SquarePrism ==
    SurfCardRead({"sqc"})
        => /\ err = "none"
           /\ last.name \in DOMAIN surf_dict
           /\ surf_dict[last.name].tag = "subs"
           /\ Len(surf_dict[last.name].ids) = 4
           /\ get_subsurf_region_expr(surf_dict[last.name].ids).err = "none"
           /\ \A pt \in ProbePoints :
                Contains(SignTableRegion(surf_dict[last.name].ids).toks, surfs, pt)
                    <=> /\ Abs(pt[1] - Floats(last.args)[1]) < Floats(last.args)[3]
                        /\ Abs(pt[2] - Floats(last.args)[2]) < Floats(last.args)[3]


\* the name a signed surface reference names, and its sign
RefName(word) == IF word[1] \in {"-", "+"} THEN Tail(word) ELSE word
RefSign(word) == IF word[1] = "-" THEN "-" ELSE "+"

\* the intersection of the half-spaces of the signed references words, each
\* over the surface the table registers under the name
RECURSIVE SignedIntersection(_)
SignedIntersection(words) ==
    IF words = <<>> THEN <<>>
    ELSE <<<<RefSign(words[1]), surf_dict[RefName(words[1])].ids[1]>>>>
         \o (IF Len(words) > 1 THEN <<Op(" ")>> ELSE <<>>)
         \o SignedIntersection(Tail(words))

\* the cell card read last is a material cell whose expression is a list of
\* signed references to registered non-composite surfaces
PlainMaterialCell ==
    /\ last.kind = "cell"
    /\ last.type = "material"
    /\ Split(last.args) # <<>>
    /\ \A i \in DOMAIN Split(last.args) :
          /\ RefName(Split(last.args)[i]) \in DOMAIN surf_dict
          /\ surf_dict[RefName(Split(last.args)[i])].tag = "surf"

\* C17: the region of such a cell is the intersection, in card order, of the
\* half-spaces of the referenced surfaces, each with the sign of its
\* reference, and the cell is filled with the material of the card.
C17_SignPreserved ==
    PlainMaterialCell
        => /\ err = "none"
           /\ last.name \in DOMAIN cell_dict
           /\ cell_dict[last.name].fill.kind = "material"
           /\ cell_dict[last.name].region = Region(SignedIntersection(Split(last.args)))


----------------------------------------------------------------------------
(* Boundary lines *)

MaxBcWords == 3

BcWords == {<<"1">>, <<"2">>, <<"3">>, T_black, T_reflective, T_periodic, <<"4">>}

\* no line, or "set bc" followed by one to MaxBcWords words
BcLinesAll ==
    {<<>>} \cup {<<T_set, T_bc>> \o w : w \in UNION {[1..n -> BcWords] : n \in 1..MaxBcWords}}

ReadBoundaryBc == ReadBoundaryOf(BcLinesAll, RootLines)
NextBc == ReadBoundaryBc
SpecBc == Init /\ [][NextBc]_vars

\* the boundary type the words 1/black, 2/reflective, 3/periodic stand for
BoundaryTypeOf(w) ==
    IF w \in {<<"1">>, T_black} THEN "vacuum"
    ELSE IF w \in {<<"2">>, T_reflective} THEN "reflective"
    ELSE IF w \in {<<"3">>, T_periodic} THEN "periodic"
    ELSE "invalid"

\* C18: the one to three words of the boundary card are mapped in card order
\* (1/black to vacuum, 2/reflective to reflective, 3/periodic to periodic);
\* without a boundary card the result is vacuum; a word outside the set fails
\* with the invalid-boundary-type error.
C18_BoundaryMapping ==
    last.kind = "bc"
        => IF last.args = <<>>
           THEN err = "none" /\ surface_bc = <<"vacuum">>
           ELSE IF \E i \in 3..Len(last.args) : BoundaryTypeOf(last.args[i]) = "invalid"
           THEN err = "ValueError_bc"
           ELSE /\ err = "none"
                /\ surface_bc = [i \in 1..(Len(last.args) - 2) |-> BoundaryTypeOf(last.args[i + 2])]


\* the step reads a transformation card of target type t
TransStep(t) == CardStep /\ last'.kind = "trans" /\ last'.type = t

\* the surface new is old moved: the same surface with operations appended
MovedSurface(old, new) ==
    /\ new.type = old.type /\ new.name = old.name /\ new.coeffs = old.coeffs
    /\ Len(new.trans) > Len(old.trans)
    /\ SubSeq(new.trans, 1, Len(old.trans)) = old.trans

\* the region new is the region old over moved copies of its surfaces
MovedRegion(old, new) ==
    /\ ~new.none
    /\ Len(new.toks) = Len(old.toks)
    /\ \A i \in DOMAIN old.toks :
          /\ new.toks[i][1] = old.toks[i][1]
          /\ old.toks[i][1] \in {"+", "-"}
                => /\ new.toks[i][2] \in DOMAIN surfs'
                   /\ MovedSurface(surfs[old.toks[i][2]], surfs'[new.toks[i][2]])

\* C19: a transformation card for the cells of a universe leaves the region
\* and the fill of a cell filled by a universe as they were and changes at
\* most its translation / rotation; when it succeeds, a cell filled by a
\* material and holding a region keeps its fill and its placement and has its
\* region replaced by the moved region.  A transformation card for a table entry
\* that is no surface object fails and changes no entry.
C19_TransformFrame ==
    [][/\ (TransStep("U") /\ last'.name \in DOMAIN universe_to_cell_names_dict)
          => \A c \in Range(universe_to_cell_names_dict[last'.name]) \cap DOMAIN cell_dict :
                /\ cell_dict[c].fill.kind = "universe"
                     => /\ cell_dict'[c].region = cell_dict[c].region
                        /\ cell_dict'[c].fill = cell_dict[c].fill
                        /\ err' = "none"
                             => (cell_dict'[c].translation \/ cell_dict'[c].rotation)
                /\ (cell_dict[c].fill.kind = "material" /\ ~cell_dict[c].region.none
                    /\ err' = "none")
                     => /\ cell_dict'[c].fill = cell_dict[c].fill
                        /\ cell_dict'[c].translation = cell_dict[c].translation
                        /\ cell_dict'[c].rotation = cell_dict[c].rotation
                        /\ MovedRegion(cell_dict[c].region, cell_dict'[c].region)
       /\ (TransStep("S") /\ last'.name \in DOMAIN surf_dict
           /\ surf_dict[last'.name].tag # "surf")
          => (err' # "none" /\ surf_dict' = surf_dict)]_vars

\* a universe card was applied to a universe holding a cell with a region
\* that a universe fills
C19_PlacementOnly ==
    /\ last.kind = "trans" /\ last.type = "U" /\ err = "none"
    /\ last.name \in DOMAIN universe_to_cell_names_dict
    /\ \E c \in Range(universe_to_cell_names_dict[last.name]) \cap DOMAIN cell_dict :
          /\ cell_dict[c].fill.kind = "universe"
          /\ ~cell_dict[c].region.none
          /\ cell_dict[c].translation


----------------------------------------------------------------------------
(* OpenMCDepcode: the geometry files of a depletion run *)

MaxGeoFiles == 3
MaxCalls == 5

GeoPaths == {"geo1.xml", "geo2.xml", "geo3.xml"}

\* self.iter_inputfile[key].  The assignment of lines 78-79 ends with a comma,
\* so the attribute is a 1-tuple holding the dict, and a tuple subscripted
\* with a str raises TypeError.
iter_inputfile(key) == [err |-> "TypeError", path |-> ""]

\* geometry.export_to_xml(path = p.path), p being the subscripted attribute
export_to_xml(p, geometry) == IF p.err = "none" THEN geometry ELSE geometry_xml

\* OpenMCDepcode(geo_files = ...): a list of one to MaxGeoFiles paths
InitDep ==
    /\ pc = "dep"
    /\ err = "none"
    /\ ncards = 0
    /\ surface_bc = <<>>
    /\ root_name = <<>>
    /\ surf_dict = <<>>
    /\ surfs = <<>>
    /\ cell_dict = <<>>
    /\ universe_dict = <<>>
    /\ univs = <<>>
    /\ universe_to_cell_names_dict = <<>>
    /\ last = NoCard
    /\ lat_in = <<>>
    /\ lat_out = <<>>
    /\ cls_card = <<>>
    /\ cls_out = "none"
    /\ geo_files \in UNION {[1..n -> GeoPaths] : n \in 1..MaxGeoFiles}
    /\ geo_files_given = geo_files
    /\ from_xml_path = ""
    /\ geometry_xml = ""
    /\ calls = <<>>
    /\ NoSimulation

Calling == pc = "dep" /\ Len(calls) < MaxCalls

\* write_depcode_input(reactor, dep_step, restart), lines 184-204: the first
\* step of a fresh run reads geo_files[0], every other call the iteration
\* input; the export of line 200 subscripts iter_inputfile
write_depcode_input ==
    /\ Calling
    /\ \E dep_step \in 0..1, restart \in BOOLEAN :
         IF dep_step = 0 /\ ~restart
         THEN /\ calls' = Append(calls, "write_initial")
              /\ IF geo_files = <<>>
                 THEN /\ err' = "IndexError"
                      /\ UNCHANGED <<from_xml_path, geometry_xml>>
                 ELSE /\ from_xml_path' = geo_files[1]
                      /\ err' = iter_inputfile("geometry").err
                      /\ geometry_xml' = export_to_xml(iter_inputfile("geometry"), geo_files[1])
         ELSE /\ calls' = Append(calls, "write_iter")
              /\ err' = iter_inputfile("geometry").err
              /\ from_xml_path' = IF iter_inputfile("geometry").err = "none"
                                  THEN geometry_xml ELSE from_xml_path
              /\ UNCHANGED geometry_xml
    /\ UNCHANGED <<pc, geo_files, geo_files_given, geoVars, latVars, clsVars, simVars>>

\* switch_to_next_geometry, lines 159-168: geo_files.pop(0) is read and
\* exported to the iteration input
switch_to_next_geometry ==
    /\ Calling
    /\ calls' = Append(calls, "switch")
    /\ IF geo_files = <<>>
       THEN /\ err' = "IndexError"
            /\ UNCHANGED <<geo_files, from_xml_path, geometry_xml>>
       ELSE /\ geo_files' = Tail(geo_files)
            /\ from_xml_path' = Head(geo_files)
            /\ err' = iter_inputfile("geometry").err
            /\ geometry_xml' = export_to_xml(iter_inputfile("geometry"), Head(geo_files))
    /\ UNCHANGED <<pc, geo_files_given, geoVars, latVars, clsVars, simVars>>

NextDep == write_depcode_input \/ switch_to_next_geometry
SpecDep == InitDep /\ [][NextDep]_vars

\* the calls so far are the first write of a fresh run and then k switches
InitialThenSwitches(k) ==
    /\ Len(calls) = k + 1
    /\ calls[1] = "write_initial"
    /\ \A i \in 2..(k + 1) : calls[i] = "switch"

\* C20: after the first write of a fresh run, the k-th call of
\* switch_to_next_geometry reads the file geo_files[k] of the list the depcode
\* was given (geo_files[1] for the first call) and makes it the iteration
\* geometry.
C20_NextGeometry ==
    \A k \in 1..(Len(geo_files_given) - 1) :
        InitialThenSwitches(k)
            => /\ from_xml_path = geo_files_given[k + 1]
               /\ geometry_xml = geo_files_given[k + 1]


----------------------------------------------------------------------------
(* Simulation.check_restart *)

\* the three paths check_restart removes, in the order of lines 86-88
RunFiles == <<"db_path", "iter_matfile", "iter_inputfile">>

\* the paths a run directory may hold
RunPaths == Range(RunFiles) \cup {"template_path", "geo_file"}

\* the os.remove calls of one try block: the first path that does not exist
\* raises OSError, which ends the block
RECURSIVE RemoveAll(_, _)
RemoveAll(paths, fs) ==
    IF paths = <<>> THEN fs
    ELSE IF Head(paths) \notin fs THEN fs
    ELSE RemoveAll(Tail(paths), fs \ {Head(paths)})

\* no geometry source is translated by a depletion run
NoGeometry ==
    /\ ncards = 0
    /\ surface_bc = <<>>
    /\ root_name = <<>>
    /\ surf_dict = <<>>
    /\ surfs = <<>>
    /\ cell_dict = <<>>
    /\ universe_dict = <<>>
    /\ univs = <<>>
    /\ universe_to_cell_names_dict = <<>>
    /\ last = NoCard
    /\ lat_in = <<>>
    /\ lat_out = <<>>
    /\ cls_card = <<>>
    /\ cls_out = "none"

InitRst ==
    /\ pc = "sim"
    /\ err = "none"
    /\ NoGeometry
    /\ NoDepcode
    /\ files \in SUBSET RunPaths
    /\ files_before = {}
    /\ restart_flag \in BOOLEAN
    /\ template_data = <<>>
    /\ template_given = <<>>
    /\ reactor = <<>>
    /\ current_depstep_idx = 0

\* Simulation.check_restart, lines 73-90
check_restart ==
    /\ pc = "sim"
    /\ pc' = "checked"
    /\ files_before' = files
    /\ files' = IF ~restart_flag THEN RemoveAll(RunFiles, files) ELSE files
    /\ UNCHANGED <<err, geoVars, latVars, clsVars, depVars, restart_flag, template_data,
                   template_given, reactor, current_depstep_idx>>

NextRst == check_restart
SpecRst == InitRst /\ [][NextRst]_vars

\* C21: after check_restart with restart_flag False none of the database
\* file, the iteration material file and the iteration input file is left,
\* whichever of them existed before; with restart_flag True the files are
\* those that existed before.
C21_CleanRestart ==
    pc = "checked"
        => IF restart_flag THEN files = files_before
           ELSE files = files_before \ Range(RunFiles)


----------------------------------------------------------------------------
(* DepcodeSerpent.replace_burnup_parameters *)

MaxTemplate == 4

\* 'set    power   '
POWER_PREFIX ==
    <<"s", "e", "t", " ", " ", " ", " ", "p", "o", "w", "e", "r", " ", " ", " ">>

\* '%5.9E' % x and '%7.5E' % x for x in 1..9: one digit, the point, digits
\* zeros and the exponent
FmtE(x, digits) ==
    Dec(x) \o <<".">> \o [i \in 1..digits |-> "0"] \o <<"E", "+", "0", "0">>

\* the line of lines 537-539
BurnupLine(power, step) ==
    POWER_PREFIX \o FmtE(power, 9)
        \o <<" ", " ", " ", "d", "e", "p", " ", "d", "a", "y", "s", "t", "e", "p", " ", " ", " ">>
        \o FmtE(step, 5) \o <<"\n">>

\* the loop of lines 531-534 with the list iterator at index i (from 1): a line
\* with the prefix is looked up with list.index and deleted, and the iterator
\* moves on over the shortened list.  [data, line_idx], line_idx from 0
RECURSIVE BurnupLoop(_, _, _)
BurnupLoop(data, i, line_idx) ==
    IF i > Len(data) THEN [data |-> data, line_idx |-> line_idx]
    ELSE IF StartsWith(data[i], POWER_PREFIX)
    THEN BurnupLoop(SubSeq(data, 1, IndexOf(data, data[i]) - 1)
                        \o SubSeq(data, IndexOf(data, data[i]) + 1, Len(data)),
                    i + 1, IndexOf(data, data[i]) - 1)
    ELSE BurnupLoop(data, i + 1, line_idx)

\* list.insert(line_idx, line)
ListInsert(data, line_idx, line) ==
    IF line_idx >= Len(data) THEN Append(data, line)
    ELSE SubSeq(data, 1, line_idx) \o <<line>> \o SubSeq(data, line_idx + 1, Len(data))

\* the lines of the templates: two power lines, a line with single blanks
\* that lacks the prefix, and two other lines
TemplateLines ==
    {POWER_PREFIX \o <<"1">>, POWER_PREFIX \o <<"2">>, <<"s", "e", "t", " ", "p">>,
     <<"a">>, <<"b">>}

\* power_levels and the cumulative depl_hist of two steps
Reactors ==
    {[power_levels |-> <<1, 2>>, depl_hist |-> <<3, 5>>],
     [power_levels |-> <<2, 2>>, depl_hist |-> <<2, 9>>]}

InitBurn ==
    /\ pc = "burn"
    /\ err = "none"
    /\ NoGeometry
    /\ NoDepcode
    /\ files = {}
    /\ files_before = {}
    /\ restart_flag = FALSE
    /\ template_data \in UNION {[1..n -> TemplateLines] : n \in 0..MaxTemplate}
    /\ template_given = template_data
    /\ reactor \in Reactors
    /\ current_depstep_idx \in 0..1

\* the step length of lines 526-530
current_depstep ==
    IF current_depstep_idx = 0 THEN reactor.depl_hist[1]
    ELSE reactor.depl_hist[current_depstep_idx + 1] - reactor.depl_hist[current_depstep_idx]

\* replace_burnup_parameters(template_data, reactor, current_depstep_idx)
replace_burnup_parameters ==
    /\ pc = "burn"
    /\ pc' = "burned"
    /\ \E r \in {BurnupLoop(template_data, 1, 8)} :
          template_data' =
              ListInsert(r.data, r.line_idx,
                         BurnupLine(reactor.power_levels[current_depstep_idx + 1],
                                    current_depstep))
    /\ UNCHANGED <<err, geoVars, latVars, clsVars, depVars, files, files_before,
                   restart_flag, template_given, reactor, current_depstep_idx>>

NextBurn == replace_burnup_parameters
SpecBurn == InitBurn /\ [][NextBurn]_vars

IsPowerLine(line) == StartsWith(line, POWER_PREFIX)
IsOtherLine(line) == ~IsPowerLine(line)

\* C22: the list replace_burnup_parameters returns holds exactly one line
\* beginning with the power prefix, the line of the current step's power and
\* step length, and the other lines of the template in their order.
C22_OnePowerLine ==
    pc = "burned"
        => /\ SelectSeq(template_data, IsPowerLine)
                = <<BurnupLine(reactor.power_levels[current_depstep_idx + 1], current_depstep)>>
           /\ SelectSeq(template_data, IsOtherLine) = SelectSeq(template_given, IsOtherLine)


\* the cell card read last is a material cell over one reference to a
\* registered composite surface
CompositeCell ==
    /\ last.kind = "cell"
    /\ last.type = "material"
    /\ Len(Split(last.args)) = 1
    /\ RefName(Split(last.args)[1]) \in DOMAIN surf_dict
    /\ surf_dict[RefName(Split(last.args)[1])].tag = "subs"

\* the region of the text prefix followed by the sub-surface expression of
\* the composite the cell refers to
CompositeRegion(prefix) ==
    from_expression(
        prefix \o get_subsurf_region_expr(surf_dict[RefName(Split(last.args)[1])].ids).expr,
        Range(surf_dict[RefName(Split(last.args)[1])].ids))

\* C23: the region of a cell over one reference to a composite of 4
\* sub-surfaces is the composite's sub-surface expression when the reference
\* has a leading "-", and the complement of that expression when the
\* reference is positive.
C23_CompositeSign ==
    (CompositeCell /\ Len(surf_dict[RefName(Split(last.args)[1])].ids) = 4)
        => /\ err = "none"
           /\ last.name \in DOMAIN cell_dict
           /\ cell_dict[last.name].region
                = IF Split(last.args)[1][1] = "-"
                  THEN Region(CompositeRegion(<<>>).toks)
                  ELSE Region(CompositeRegion(<<"~">>).toks)


\* the sign partition the claim gives a hexagonal prism: by the kind of its
\* first sub-surface, the indices of the positive sub-surfaces
HexPositive(first) == IF first.type = "px" THEN {0, 2, 3} ELSE {0, 2, 5}

\* the parenthesized signed expression over ids with the indices pos positive
SignedExpr(ids, pos) ==
    <<"(">> \o SubSeq(get_subsurf_region_expr_helper(ids, 1, pos), 1,
                      Len(get_subsurf_region_expr_helper(ids, 1, pos)) - 1)
            \o <<")">>

\* C24: a cell over a "-" reference to a composite of 6 sub-surfaces gets the
\* region of the signed expression over all 6 ids, with the positive indices
\* {0,2,3} when the first sub-surface is an X plane and {0,2,5} when it is a
\* Y plane.
C24_HexSignTable ==
    (CompositeCell /\ Len(surf_dict[RefName(Split(last.args)[1])].ids) = 6)
        => /\ err = "none"
           /\ last.name \in DOMAIN cell_dict
           /\ cell_dict[last.name].region
                = Region(from_expression(
                      SignedExpr(surf_dict[RefName(Split(last.args)[1])].ids,
                                 HexPositive(surfs[surf_dict[RefName(Split(last.args)[1])].ids[1]])),
                      Range(surf_dict[RefName(Split(last.args)[1])].ids)).toks)


\* the step reads a material cell card whose expression is one reference to a
\* surface registered as the "inf" sentinel
InfCellStep ==
    /\ CardStep
    /\ last'.kind = "cell" /\ last'.type = "material"
    /\ Len(last'.refs) = 1
    /\ last'.refs[1] \in DOMAIN surf_dict
    /\ surf_dict[last'.refs[1]].tag = "inf"

\* C25: a material cell over exactly one "inf" surface fails at most on its
\* material, and otherwise is registered with no region while no surface is
\* created or changed; an inf surface card stores the sentinel under the name
\* and creates no surface object.
C25_InfCell ==
    [][/\ InfCellStep
          => /\ err' \in {"none", "KeyError_mat"}
             /\ surfs' = surfs
             /\ err' = "none" => cell_dict'[last'.name].region = NoRegion
       /\ (CardStep /\ last'.kind = "surf" /\ last'.type = "inf")
          => /\ err' = "none"
             /\ surfs' = surfs
             /\ surf_dict'[last'.name] = SurfEntry("inf", <<>>)]_vars

\* a material cell over the inf surface s1 was registered without a region
C25_NullRegionCell ==
    /\ last.kind = "cell" /\ last.type = "material" /\ err = "none"
    /\ Len(last.refs) = 1
    /\ last.refs[1] \in DOMAIN surf_dict
    /\ surf_dict[last.refs[1]].tag = "inf"
    /\ cell_dict[last.name].region.none


\* the names the lattice card assembled, flat and in file order
LatAssembled ==
    Flatten(get_lattice_universe_names(lat_in.following, lat_in.lattice_args, 8).names)

\* C26: the returned lattice array has Ny rows of Nx universes, and its row r
\* is row Ny + 1 - r of the assembled names taken Nx to a row, so that the
\* first row of the result is the last row of the source card.
C26_ReshapeRowsByColumns ==
    LatBuilt =>
        /\ Len(lat_out.lattice_universe_array) = LatNy
        /\ \A r \in 1..LatNy :
             lat_out.lattice_universe_array[r] =
                 [c \in 1..LatNx |-> universe_dict[LatAssembled[(LatNy - r) * LatNx + c]]]


\* the names on the leading continuation lines of the lines after the card
RECURSIVE ContinuationNames(_)
ContinuationNames(following) ==
    IF following = <<>> \/ ~LAT_MULTILINE_REGEX(Head(following)) THEN <<>>
    ELSE Head(following) \o ContinuationNames(Tail(following))

\* the names after the pitch on the lattice card itself
LatInlineNames == SubSeq(lat_in.lattice_args, 6, Len(lat_in.lattice_args))

\* C27: whenever the names of a square lattice card are read, the flat
\* sequence assembled is the names after the pitch on the card, or, when the
\* card has none, the names of the continuation lines right after it.
C27_NamesInlineOrContinuation ==
    (last.kind = "lat" /\ LatKind = 1) =>
        LET r == get_lattice_universe_names(lat_in.following, lat_in.lattice_args, 8)
        IN  r.err = "none" =>
                Flatten(r.names) = IF LatInlineNames # <<>> THEN LatInlineNames
                                   ELSE ContinuationNames(lat_in.following)


\* C30: reading the names of a lattice card never indexes the geometry source
\* past its last line, also when the card or its continuation lines end the
\* source.
C30_NoReadPastEnd ==
    last.kind = "lat" => err # "IndexError"


\* the operations of the transformation card read last, in the order of its
\* order flag
CardTransTypes == TransTypes(last'.args[1], last'.args[2])

\* C28: a transformation card with an order flag other than 1 and 2 fails;
\* a card that succeeds leaves its target surface, and every surface of the
\* region of every material cell of its target universe, moved by exactly
\* the operations of the card in the order of the flag (rotation then
\* translation for 1, translation then rotation for 2, a translation alone
\* for three arguments), and gives every cell a universe fills the placement
\* of those operations.
C28_OrderedOperations ==
    [][(CardStep /\ last'.kind = "trans")
       => /\ CardTransTypes[1] \notin {"translation", "rotation"} => err' # "none"
          /\ (err' = "none" /\ last'.type = "S")
             => surfs'[surf_dict'[last'.name].ids[1]].trans
                    = surfs[surf_dict[last'.name].ids[1]].trans \o CardTransTypes
          /\ (err' = "none" /\ last'.type = "U")
             => \A c \in Range(universe_to_cell_names_dict[last'.name]) \cap DOMAIN cell_dict :
                   IF cell_dict[c].fill.kind = "universe"
                   THEN /\ cell_dict'[c].translation
                        /\ cell_dict'[c].rotation
                             <=> (cell_dict[c].rotation \/ "rotation" \in Range(CardTransTypes))
                   ELSE \A i \in DOMAIN cell_dict[c].region.toks :
                           cell_dict[c].region.toks[i][1] \in {"+", "-"}
                             => surfs'[cell_dict'[c].region.toks[i][2]].trans
                                  = surfs[cell_dict[c].region.toks[i][2]].trans
                                        \o CardTransTypes]_vars


\* the id text of the surface registered under each name the cell refers to
SurfaceIdText == [n \in Range(last.refs) |-> Dec(surf_dict[n].ids[1])]

\* the expression of the cell card after the substitution of lines 527-539
SubstitutedExpression ==
    SubstituteNames(ReplaceOperators(last.args), last.refs, SurfaceIdText, {})

\* the reference word with its name replaced by the id of that surface
RefWithId(word) ==
    (IF word[1] \in {"-", "+"} THEN <<word[1]>> ELSE <<>>) \o SurfaceIdText[RefName(word)]

\* C29: in the substituted expression of a cell over non-composite surfaces
\* every reference is its own sign followed by the id of the surface it
\* names, in the order of the card, and nothing else changes.
C29_ExactSubstitution ==
    PlainMaterialCell
        => SubstitutedExpression
             = JoinTail([i \in DOMAIN Split(last.args) |-> RefWithId(Split(last.args)[i])])

====
